---- MODULE Spec2Model ----
(***************************************************************************)
(* A model of the list-query engine of package gql (graphql-gen):          *)
(*   - field extraction (ExtractField, deepExtractFieldWithError),         *)
(*   - the sort engine (listSort and its worker goroutine),                *)
(*   - the comparators and the list filter (newListFilter, match),         *)
(*   - the list field resolver (ResolveListField).                         *)
(*                                                                         *)
(* Go values are records tagged with their dynamic type in "kind".  A Go   *)
(* string is the sequence of its characters, so that splitting a path and  *)
(* comparing two strings are computed as the code computes them.  A        *)
(* float64 is a fixed-point number of tenths ("v") or NaN ("nan").         *)
(***************************************************************************)
EXTENDS Integers, Sequences, FiniteSets, TLC

VARIABLES
    list,       \* the []interface{} handed to listSort (shared with the worker)
    input,      \* the list as it was when listSort was called (history)
    params,     \* *sortParameters of the running listSort
    wpc,        \* worker goroutine: "none", "spawned", "sending", "exited", "blocked", "crashed"
    errChan,    \* the value the worker offers on the unbuffered channel
    ncmp,       \* number of calls of the less function made by the worker
    spc,        \* direct caller of listSort: "none", "call", "waiting", "returned"
    sortErr,    \* the error listSort returned, "none" before it returns
    rpc,        \* ResolveListField resolver: "none", "start", "sorting", "done", "panicked"
    filterArg,  \* p.Args["filter"]
    sortArg,    \* p.Args["sort"]
    source,     \* p.Source
    reporter,   \* the QueryReporter of p.Context: "none", "ok", "failing"
    filter,     \* the *listFilter parsed from filterArg
    resolved,   \* whether the resolver ran resolve(p)
    reported,   \* the names handed to QueryReporter.QueriedField, in order
    matchLog,   \* what filter.match returned for each item it was called on, in order
    retVal,     \* the value the resolver returned
    retErr,     \* the error the resolver returned
    limiter,    \* a *limitLength shared by the callers of its Match
    mtx,        \* limiter.mtx: 0 when unlocked, else the caller that holds it
    mpc,        \* each caller's position in Match: "idle", "lock", "load", "store", "return"
    loaded,     \* each caller's read of c.count in c.count++
    returns,    \* the calls of Match that returned, in order: [caller, value]
    call,       \* a call of a function of utils.go: [fn, ...], its arguments
    answer,     \* what the call returned: [done, val]
    bargs,      \* the arguments of NewObjectBuilder: [structs, namePrefix, fieldAdditions]
    ob,         \* the *ObjectBuilder: none yet, refused with an error, or made
    gTypes      \* what the last BuildTypes returned

sortVars == <<list, input, params, wpc, errChan, ncmp, spc, sortErr>>

rlfVars == <<rpc, filterArg, sortArg, source, reporter, filter, resolved, reported,
             matchLog, retVal, retErr>>

limVars == <<limiter, mtx, mpc, loaded, returns>>

utilVars == <<call, answer>>
builderVars == <<bargs, ob, gTypes>>

vars == <<sortVars, rlfVars, limVars, utilVars, builderVars>>

-----------------------------------------------------------------------------
(* Bounds of the model.                                                    *)

\* longest list handed to listSort by a direct caller
MaxLen == 3

\* longest list held by the field that ResolveListField resolves
MaxItems == 2
MaxCallers == 2
MaxCalls == 3
MaxName == 2
MaxPath == 3
MaxBuilds == 3

-----------------------------------------------------------------------------
(* Go strings.                                                             *)

\* the characters of the model, in byte order
Alphabet == <<"-", "0", "1", "2", "3", "A", "B", "_", "a", "b", "c", "d", "i", "s", "t">>

CharRank(c) == CHOOSE i \in 1..Len(Alphabet) : Alphabet[i] = c

\* s < t on Go strings: bytewise lexicographic
RECURSIVE StrLess(_, _)
StrLess(s, t) ==
    IF t = <<>> THEN FALSE
    ELSE IF s = <<>> THEN TRUE
    ELSE IF Head(s) = Head(t) THEN StrLess(Tail(s), Tail(t))
    ELSE CharRank(Head(s)) < CharRank(Head(t))

\* strings.Split(s, sep) for a one-character separator
RECURSIVE SplitFrom(_, _, _)
SplitFrom(s, sep, cur) ==
    IF s = <<>> THEN <<cur>>
    ELSE IF Head(s) = sep THEN <<cur>> \o SplitFrom(Tail(s), sep, <<>>)
    ELSE SplitFrom(Tail(s), sep, Append(cur, Head(s)))

Split(s, sep) == SplitFrom(s, sep, <<>>)

FieldPathSeparator == "_"

-----------------------------------------------------------------------------
(* Go values.                                                              *)

Nil == [kind |-> "nil"]
IntV(n) == [kind |-> "int", v |-> n]
Int64V(n) == [kind |-> "int64", v |-> n]
StrV(s) == [kind |-> "string", v |-> s]
FloatV(tenths) == [kind |-> "float64", v |-> tenths, nan |-> FALSE]
NaN == [kind |-> "float64", v |-> 0, nan |-> TRUE]
BoolV(b) == [kind |-> "bool", v |-> b]
PtrV(elem) == [kind |-> "ptr", elem |-> elem]
SliceV(elems) == [kind |-> "slice", elems |-> elems]
\* a struct value: its fields in declaration order, each with the name
\* fieldName derives for it, whether it is exported, whether it is embedded
StructV(fields) == [kind |-> "struct", fields |-> fields]
Fld(name, val) == [name |-> name, exported |-> TRUE, anonymous |-> FALSE, val |-> val]
UFld(name, val) == [name |-> name, exported |-> FALSE, anonymous |-> FALSE, val |-> val]
\* an embedded struct: its field is named after its type
Embedded(name, exported, val) ==
    [name |-> name, exported |-> exported, anonymous |-> TRUE, val |-> val]

\* the outcome of a call that panicked instead of returning
Panic == [kind |-> "panic"]

-----------------------------------------------------------------------------
(* Field extraction.                                                       *)

\* the fields of s that are embedded, in declaration order
EmbeddedFields(s) == SelectSeq(s.fields, LAMBDA f : f.anonymous)

\* index of the first field of s whose derived name is key, 0 if none
FirstNamed(s, key) ==
    IF \E i \in 1..Len(s.fields) : s.fields[i].name = key
    THEN CHOOSE i \in 1..Len(s.fields) :
            /\ s.fields[i].name = key
            /\ \A j \in 1..(i - 1) : s.fields[j].name # key
    ELSE 0

\* ExtractField(s, key): the value of the field, Nil when it is not found
\* (or is nil), Panic when reflection panics: reflect.TypeOf(nil).Kind() on a
\* nil interface, Value.Interface() on a value read through an unexported field.
RECURSIVE ExtractField(_, _)
RECURSIVE ExtractEmbedded(_, _)

\* if result := ExtractField(embed.Interface(), key); result != nil { return result }
EmbeddedResult(result, rest, key) ==
    IF result # Nil THEN result ELSE ExtractEmbedded(rest, key)

\* the loop over the embedded fields of a struct
ExtractEmbedded(embeds, key) ==
    IF embeds = <<>> THEN Nil
    ELSE IF ~Head(embeds).exported THEN Panic
    ELSE EmbeddedResult(ExtractField(Head(embeds).val, key), Tail(embeds), key)

\* the loop over the fields of a struct, i the first field named key
ExtractNamed(s, key, i) ==
    IF i # 0
    THEN IF s.fields[i].exported THEN s.fields[i].val ELSE Panic
    ELSE ExtractEmbedded(EmbeddedFields(s), key)

ExtractField(s, key) ==
    IF s.kind = "nil" THEN Panic
    ELSE IF s.kind # "struct" THEN Nil
    ELSE ExtractNamed(s, key, FirstNamed(s, key))

RECURSIVE DeepExtractLoop(_, _, _)

\* a round of the loop that reports every split that is not found as an error
DeepExtractStepStrict(value, splits, i) ==
    IF value = Panic THEN [tag |-> "panic", val |-> Nil]
    ELSE IF value = Nil THEN [tag |-> "err", val |-> Nil]
    ELSE DeepExtractLoop(value, splits, i + 1)

\* one round of the loop of deepExtractFieldWithError: value is what
\* ExtractField returned for split i
DeepExtractStep(value, splits, i) ==
    IF value = Panic THEN [tag |-> "panic", val |-> Nil]
    ELSE IF value = Nil
    THEN IF i = 1 THEN [tag |-> "err", val |-> Nil]
         ELSE [tag |-> "ok", val |-> Nil]
    ELSE DeepExtractLoop(value, splits, i + 1)

\* the loop of deepExtractFieldWithError from split i on
DeepExtractLoop(value, splits, i) ==
    IF i > Len(splits) THEN [tag |-> "ok", val |-> value]
    ELSE DeepExtractStep(ExtractField(value, splits[i]), splits, i)

\* deepExtractFieldWithError(s, key): "ok" with the value (Nil: no value),
\* "err" when the first split is not found, "panic" when ExtractField panics
deepExtractFieldWithError(s, key) ==
    DeepExtractLoop(s, Split(key, FieldPathSeparator), 1)

-----------------------------------------------------------------------------
(* The sort engine (sort.go).                                              *)

ascending == <<"A", "S", "C">>
descending == <<"D", "E", "S", "C">>

\* if err != nil { panic(err) }; return value
ValueOrPanic(r) == IF r.tag = "ok" THEN r.val ELSE Panic

\* extracFunc(index) of unprotectedListSort: the sort key of list[index], or
\* Panic (panic(err) on a deep-extraction error, or a panic of ExtractField)
extracFunc(l, field, index) ==
    IF field = <<>> THEN l[index]
    ELSE ValueOrPanic(deepExtractFieldWithError(l[index], field))

\* KeyLess with <= written for <
KeyLessOrEqual(kind, x, y) ==
    IF kind = "string" THEN x.v = y.v \/ StrLess(x.v, y.v)
    ELSE IF kind = "float64" THEN ~x.nan /\ ~y.nan /\ x.v <= y.v
    ELSE x.v <= y.v

\* the < of the four supported key types
KeyLess(kind, x, y) ==
    IF kind = "string" THEN StrLess(x.v, y.v)
    ELSE IF kind = "float64" THEN ~x.nan /\ ~y.nan /\ x.v < y.v
    ELSE x.v < y.v

\* iItem := extracFunc(i).(T); jItem := extracFunc(j).(T); return iItem < jItem
\* The type assertions panic on any other dynamic type (nil included).
AssertedLess(kind, iItem, jItem) ==
    IF iItem.kind # kind \/ jItem.kind # kind THEN "panic"
    ELSE IF KeyLess(kind, iItem, jItem) THEN "true" ELSE "false"

\* the less function built for the key type found in the first item: both
\* keys are extracted again on every call.  "true", "false" or "panic".
lessFunc(kind, l, field, i, j) ==
    AssertedLess(kind, extracFunc(l, field, i), extracFunc(l, field, j))

\* notLess(parent): the logical negation of the parent's answer
notLess(parent) ==
    IF parent = "panic" THEN "panic"
    ELSE IF parent = "true" THEN "false" ELSE "true"

\* if params.order == descending { less = notLess(less) }
Ordered(order, parent) == IF order = descending THEN notLess(parent) ELSE parent

\* the less function handed to sort.SliceStable
less(p, l, i, j) == Ordered(p.order, lessFunc(p.kind, l, p.field, i, j))

Swap(l, i, j) == [l EXCEPT ![i] = l[j], ![j] = l[i]]

\* sort.SliceStable(list, less) on fewer items than its block size of 20 is
\* one insertion sort:
\*   for i := 1; i < n; i++ { for j := i; j > 0 && less(j, j-1); j-- { swap(j, j-1) } }
\* (positions are 1-based here).  st is [list, ncmp, panicked].
RECURSIVE InsertionInner(_, _, _)

\* one round of the inner loop: r is what less(j, j-1) answered
InsertionStep(st, j, p, r) ==
    IF r = "panic" THEN [st EXCEPT !.ncmp = @ + 1, !.panicked = TRUE]
    ELSE IF r = "true"
    THEN InsertionInner([st EXCEPT !.ncmp = @ + 1, !.list = Swap(@, j, j - 1)], j - 1, p)
    ELSE [st EXCEPT !.ncmp = @ + 1]

InsertionInner(st, j, p) ==
    IF j <= 1 THEN st
    ELSE InsertionStep(st, j, p, less(p, st.list, j, j - 1))

RECURSIVE InsertionOuter(_, _, _)
InsertionOuter(st, i, p) ==
    IF st.panicked \/ i > Len(st.list) THEN st
    ELSE InsertionOuter(InsertionInner(st, i, p), i + 1, p)

SliceStable(l, p) ==
    InsertionOuter([list |-> l, ncmp |-> 0, panicked |-> FALSE], 2, p)

SupportedKinds == {"int", "int64", "string", "float64"}

\* sort.SliceStable(list, less); errChan <- nil, or the panic of less
AfterSliceStable(st) ==
    [list |-> st.list, ncmp |-> st.ncmp, panicked |-> st.panicked,
     send |-> IF st.panicked THEN "none" ELSE "nil"]

\* switch field.(type): the less function for the type of the first key, or
\* the error sent for a nil or unsupported one
SortByFirstKey(sp, l, field) ==
    IF field = Panic
    THEN [list |-> l, ncmp |-> 0, panicked |-> TRUE, send |-> "none"]
    ELSE IF field.kind = "nil"
    THEN [list |-> l, ncmp |-> 0, panicked |-> FALSE, send |-> "unable to extract sort field"]
    ELSE IF field.kind \notin SupportedKinds
    THEN [list |-> l, ncmp |-> 0, panicked |-> FALSE, send |-> "unknown type for sort field"]
    ELSE AfterSliceStable(SliceStable(l, [field |-> sp.field, order |-> sp.order,
                                          kind |-> field.kind]))

\* the body of unprotectedListSort up to its send on errChan or its panic:
\* [list, ncmp, panicked, send]
SortBody(sp, l) == SortByFirstKey(sp, l, extracFunc(l, sp.field, 1))

\* unprotectedListSort without its deferred recover
NoRecover(body) == body

\* the deferred function of unprotectedListSort: recover() stops a panic and
\* sends it on errChan as an error
DeferredRecover(body) ==
    IF body.panicked
    THEN [body EXCEPT !.panicked = FALSE, !.send = "failed to sort"]
    ELSE body

\* unprotectedListSort(params, list, errChan), up to its one send
unprotectedListSort(sp, l) == DeferredRecover(SortBody(sp, l))

\* a deferred function that sends whether it recovered a panic or not
SendsAlways(body) == <<"failed to sort">>

\* what the deferred function sends when unprotectedListSort ends:
\* err := recover(); if err != nil { errChan <- ... }
DeferredSends(body) == IF body.panicked THEN <<"failed to sort">> ELSE <<>>

\* what the body sent before it returned or panicked
BodySends(body) == IF body.send = "none" THEN <<>> ELSE <<body.send>>

\* the sends of the worker goroutine from its start to its end, in order
SendsOf(body) == BodySends(body) \o DeferredSends(body)
WorkerSends(sp, l) == SendsOf(SortBody(sp, l))

\* the worker once its send is received: it ends, or it blocks on a further
\* send that no one receives
AfterSend(sp, l) == IF Len(WorkerSends(sp, l)) > 1 THEN "blocked" ELSE "exited"

-----------------------------------------------------------------------------
(* The comparators (comparator.go).                                        *)

\* int(f) of a float64 counted in tenths: truncation toward zero
Truncate(tenths) == IF tenths >= 0 THEN tenths \div 10 ELSE -((-tenths) \div 10)

\* limitLength.Match: c.count++ under the mutex
limitCount(c) == c.count + 1

\* limitMatch with >= written for >
limitMatchOffByOne(count, limit) == ~(count >= limit)

\* limitLength.Match: false once the count is above the limit
limitMatch(count, limit) == ~(count > limit)

\* integerComparator.Match once the operand is an int
integerCompare(operation, in, value) ==
    IF operation = <<">">> THEN in > value
    ELSE IF operation = <<">", "=">> THEN in >= value
    ELSE IF operation = <<"<">> THEN in < value
    ELSE in <= value

\* Comparator.Match(raw) of every comparator type, as the value it returns
RECURSIVE Match(_, _)
Match(c, raw) ==
    IF c.type = "NotComparator" THEN ~Match(c.Child, raw)
    ELSE IF c.type = "intEqual" THEN raw.kind = "int" /\ raw.v = c.value
    ELSE IF c.type = "stringEqual" THEN raw.kind = "string" /\ raw.v = c.value
    ELSE IF c.type = "inComparator"
    THEN raw.kind = "string" /\ \E i \in 1..Len(c.values) : raw.v = c.values[i]
    ELSE IF c.type = "integerComparator"
    THEN IF raw.kind = "int" THEN integerCompare(c.operation, raw.v, c.value)
         ELSE IF raw.kind = "float64"
         THEN integerCompare(c.operation, Truncate(raw.v), c.value)
         ELSE FALSE
    ELSE limitMatch(limitCount(c), c.limit)

\* the comparator after one call of Match: only limitLength has state
AfterMatch(c) ==
    IF c.type = "limitLength" THEN [c EXCEPT !.count = limitCount(c)] ELSE c

NoComparator == [type |-> "none"]
Rejected(msg) == [op |-> NoComparator, err |-> msg]
Accepted(c) == [op |-> c, err |-> "nil"]

\* arg["Value"]: the zero second result is a key that is not in the map
HasKey(arg, k) == k \in DOMAIN arg

NewEqualComparator(arg) ==
    IF ~HasKey(arg, "Value") THEN Rejected("filter argument is missing 'Value'")
    ELSE IF arg["Value"].kind = "int"
    THEN Accepted([type |-> "intEqual", value |-> arg["Value"].v])
    ELSE IF arg["Value"].kind = "string"
    THEN Accepted([type |-> "stringEqual", value |-> arg["Value"].v])
    ELSE Rejected("unsupported argument value, strings and integers are supported")

\* return NotComparator{Child: made}, nil, or the error of the child's constructor
Negated(made) ==
    IF made.err # "nil" THEN made
    ELSE Accepted([type |-> "NotComparator", Child |-> made.op])

NewNotEqualComparator(arg) == Negated(NewEqualComparator(arg))

\* the loop of NewInComparator over the items of Values
InValues(elems) ==
    IF \E i \in 1..Len(elems) : elems[i].kind # "string"
    THEN Rejected("filter argument 'Values' should be a list of strings")
    ELSE Accepted([type |-> "inComparator",
                   values |-> [i \in 1..Len(elems) |-> elems[i].v]])

NewInComparator(arg) ==
    IF ~HasKey(arg, "Values") THEN Rejected("filter argument is missing 'Values'")
    ELSE IF arg["Values"].kind # "slice"
    THEN Rejected("filter argument 'Values' should be a list of strings")
    ELSE InValues(arg["Values"].elems)

NewIntegerComparator(operation, arg) ==
    IF ~HasKey(arg, "Value") THEN Rejected("filter argument is missing 'Value'")
    ELSE IF arg["Value"].kind # "int"
    THEN Rejected("filter argument 'Value' must be an integer")
    ELSE Accepted([type |-> "integerComparator", operation |-> operation,
                   value |-> arg["Value"].v])

NewNotInComparator(arg) == Negated(NewInComparator(arg))

NewLimitLengthComparator(arg) ==
    IF ~HasKey(arg, "Value") THEN Rejected("filter argument is missing 'Value'")
    ELSE IF arg["Value"].kind # "int"
    THEN Rejected("filter argument 'Value' must be an integer")
    ELSE Accepted([type |-> "limitLength", limit |-> arg["Value"].v, count |-> 0])

-----------------------------------------------------------------------------
(* The list filter and its parsing.                                        *)

opEQ == <<"=", "=">>
opNE == <<"!", "=">>
opGT == <<">">>
opGE == <<">", "=">>
opLT == <<"<">>
opLE == <<"<", "=">>
opLIMIT == <<"L", "I", "M", "I", "T">>
opIN == <<"I", "N">>
opNOTIN == <<"N", "O", "T", " ", "I", "N">>

\* the keys of the ListOperations registry
RegisteredOperations == {opEQ, opNE, opGT, opGE, opLT, opLE, opLIMIT, opIN, opNOTIN}

\* ListOperations[operation](arg)
ListOperations(operation, arg) ==
    IF operation = opEQ THEN NewEqualComparator(arg)
    ELSE IF operation = opNE THEN NewNotEqualComparator(arg)
    ELSE IF operation = opLIMIT THEN NewLimitLengthComparator(arg)
    ELSE IF operation = opIN THEN NewInComparator(arg)
    ELSE IF operation = opNOTIN THEN NewNotInComparator(arg)
    ELSE NewIntegerComparator(operation, arg)

\* AST nodes of the GraphQL library, as far as the parsing looks at them
StringValue(s) == [kind |-> "StringValue", value |-> s]
IntValue(literal) == [kind |-> "IntValue", value |-> literal]
FloatValue(literal) == [kind |-> "FloatValue", value |-> literal]
ListValue(values) == [kind |-> "ListValue", values |-> values]
ObjectValue(fields) == [kind |-> "ObjectValue", fields |-> fields]
ObjectField(name, value) == [name |-> name, value |-> value]

\* an argument whose literal was an object: valueAST.GetValue() is its fields
FieldsArg(fields) == [kind |-> "fields", fields |-> fields]

Digits == <<"0", "1", "2", "3", "4", "5", "6", "7", "8", "9">>
IsDigit(c) == \E i \in 1..Len(Digits) : Digits[i] = c
DigitValue(c) == (CHOOSE i \in 1..Len(Digits) : Digits[i] = c) - 1

RECURSIVE AtoiDigits(_, _)
AtoiDigits(s, acc) ==
    IF s = <<>> THEN acc
    ELSE AtoiDigits(Tail(s), acc * 10 + DigitValue(Head(s)))

\* the digits of a literal, signed
AtoiSigned(negative, body) ==
    IF body = <<>> \/ \E i \in 1..Len(body) : ~IsDigit(body[i])
    THEN [ok |-> FALSE, n |-> 0]
    ELSE [ok |-> TRUE, n |-> IF negative THEN -AtoiDigits(body, 0) ELSE AtoiDigits(body, 0)]

\* strconv.Atoi on a literal short enough not to overflow an int
Atoi(s) ==
    IF s # <<>> /\ Head(s) \in {"-", "+"}
    THEN AtoiSigned(Head(s) = "-", Tail(s))
    ELSE AtoiSigned(FALSE, s)

\* realValue, err := strconv.Atoi(strValue)
IntResult(a) ==
    IF a.ok THEN [val |-> IntV(a.n), err |-> "nil"]
    ELSE [val |-> Nil, err |-> "unable to determine value of integer"]

RECURSIVE parseASTValue(_)
RECURSIVE parseASTList(_, _)

\* itemValue, err := parseASTValue(item); list = append(list, itemValue)
ListItemResult(item, rest, acc) ==
    IF item.err # "nil" THEN [val |-> Nil, err |-> item.err]
    ELSE parseASTList(rest, Append(acc, item.val))

\* the loop of parseASTValue over the values of a list
parseASTList(items, acc) ==
    IF items = <<>> THEN [val |-> SliceV(acc), err |-> "nil"]
    ELSE ListItemResult(parseASTValue(Head(items)), Tail(items), acc)

\* parseASTValue(in): [val, err]
parseASTValue(in) ==
    IF in.kind = "StringValue" THEN [val |-> StrV(in.value), err |-> "nil"]
    ELSE IF in.kind = "IntValue" THEN IntResult(Atoi(in.value))
    ELSE IF in.kind = "ListValue" THEN parseASTList(in.values, <<>>)
    ELSE [val |-> Nil, err |-> "unhandled AST value type"]

RECURSIVE parseArgumentFields(_, _)

\* argfields[field.Name.Value] = value, or the error of parseASTValue
ArgumentFieldResult(parsed, name, rest, acc) ==
    IF parsed.err # "nil"
    THEN [map |-> acc, err |-> "unable to parse filter -> Argument"]
    ELSE parseArgumentFields(rest,
            [k \in (DOMAIN acc) \cup {name} |-> IF k = name THEN parsed.val ELSE acc[k]])

\* the fields of an Argument object parsed into a map, or the first error
parseArgumentFields(fields, acc) ==
    IF fields = <<>> THEN [map |-> acc, err |-> "nil"]
    ELSE ArgumentFieldResult(parseASTValue(Head(fields).value), Head(fields).name,
                             Tail(fields), acc)

\* a map with no entry (a nil map reads the same)
EmptyMap == [k \in {} |-> Nil]

\* the zero listFilterJSON
ZeroFilterJSON == [Field |-> <<>>, Operation |-> <<>>, Argument |-> EmptyMap]

RECURSIVE newListFilterJSON(_, _)

\* lf.Argument = argfields, or the error met in the Argument
ArgumentResult(a, rest, lf) ==
    IF a.err # "nil" THEN [lf |-> lf, err |-> a.err]
    ELSE newListFilterJSON(rest, [lf EXCEPT !.Argument = a.map])

\* one round of the loop of newListFilterJSON: switch f.Name.Value
FilterField(f, rest, lf) ==
    IF f.name = "Field"
    THEN IF f.value.kind # "StringValue"
         THEN [lf |-> lf, err |-> "unable to parse filter argument field Field"]
         ELSE newListFilterJSON(rest, [lf EXCEPT !.Field = f.value.value])
    ELSE IF f.name = "Operation"
    THEN IF f.value.kind # "StringValue"
         THEN [lf |-> lf, err |-> "unable to parse filter argument field Operation"]
         ELSE newListFilterJSON(rest, [lf EXCEPT !.Operation = f.value.value])
    ELSE IF f.name = "Argument"
    THEN IF f.value.kind # "ObjectValue"
         THEN [lf |-> lf, err |-> "unable to parse filter argument field Argument"]
         ELSE ArgumentResult(parseArgumentFields(f.value.fields, EmptyMap), rest, lf)
    ELSE newListFilterJSON(rest, lf)

\* newListFilterJSON(fields): the loop over the fields of the filter object
newListFilterJSON(fields, lf) ==
    IF fields = <<>> THEN [lf |-> lf, err |-> "nil"]
    ELSE FilterField(Head(fields), Tail(fields), lf)

\* a nil *listFilter
NoFilter == [fieldName |-> <<>>, op |-> NoComparator]

\* op, err := newOp(lf.Argument); return &listFilter{fieldName: lf.Field, op: op}, nil
FilterOf(made, lf) ==
    IF made.err # "nil" THEN [filter |-> NoFilter, err |-> made.err]
    ELSE [filter |-> [fieldName |-> lf.Field, op |-> made.op], err |-> "nil"]

\* newListFilter once newListFilterJSON returned
FilterOfJSON(parsed) ==
    IF parsed.err # "nil" THEN [filter |-> NoFilter, err |-> parsed.err]
    ELSE IF parsed.lf.Operation = <<>>
    THEN [filter |-> NoFilter, err |-> "filter Operation is undefined"]
    ELSE IF parsed.lf.Operation \notin RegisteredOperations
    THEN [filter |-> NoFilter, err |-> "unknown filter operator"]
    ELSE FilterOf(ListOperations(parsed.lf.Operation, parsed.lf.Argument), parsed.lf)

\* newListFilter taking an argument that is no object for no filter at all
newListFilterUnchecked(arg) ==
    IF arg = Nil \/ arg.kind # "fields" THEN [filter |-> NoFilter, err |-> "nil"]
    ELSE FilterOfJSON(newListFilterJSON(arg.fields, ZeroFilterJSON))

\* newListFilter(arg): [filter, err]; (NoFilter, "nil") is the (nil, nil) result
newListFilter(arg) ==
    IF arg = Nil THEN [filter |-> NoFilter, err |-> "nil"]
    ELSE IF arg.kind # "fields"
    THEN [filter |-> NoFilter, err |-> "unable to parse filter argument"]
    ELSE FilterOfJSON(newListFilterJSON(arg.fields, ZeroFilterJSON))

\* match once deepExtractFieldWithError returned, with the error taken for
\* an item that does not match
matchExtractedLenient(lf, field) ==
    IF field.tag = "panic"
    THEN [matched |-> FALSE, err |-> "nil", panicked |-> TRUE]
    ELSE IF field.tag = "err"
    THEN [matched |-> FALSE, err |-> "nil", panicked |-> FALSE]
    ELSE [matched |-> Match(lf.op, field.val), err |-> "nil", panicked |-> FALSE]

\* if err != nil { return false, err }; return lf.op.Match(field), nil
matchExtracted(lf, field) ==
    IF field.tag = "panic"
    THEN [matched |-> FALSE, err |-> "nil", panicked |-> TRUE]
    ELSE IF field.tag = "err"
    THEN [matched |-> FALSE, err |-> "unable to find field to extract",
          panicked |-> FALSE]
    ELSE [matched |-> Match(lf.op, field.val), err |-> "nil", panicked |-> FALSE]

\* listFilter.match(raw): [matched, err, panicked]
match(lf, raw) ==
    IF lf.fieldName = <<>>
    THEN [matched |-> Match(lf.op, Nil), err |-> "nil", panicked |-> FALSE]
    ELSE matchExtracted(lf, deepExtractFieldWithError(raw, lf.fieldName))

\* the zero sortParameters
ZeroSortParameters == [field |-> <<>>, order |-> <<>>]

\* the loop of parseSortParameters over the fields of the sort object
RECURSIVE parseSortFields(_, _)

\* one round of the loop of parseSortParameters: switch f.Name.Value
SortField(f, rest, sp) ==
    IF f.name = "Field"
    THEN IF f.value.kind # "StringValue"
         THEN [params |-> sp, given |-> FALSE,
               err |-> "unable to parse sort argument field Field"]
         ELSE parseSortFields(rest, [sp EXCEPT !.field = f.value.value])
    ELSE IF f.name = "Order"
    THEN IF f.value.kind # "StringValue"
         THEN [params |-> sp, given |-> FALSE,
               err |-> "unable to parse sort argument field Order"]
         ELSE IF f.value.value \notin {ascending, descending, <<>>}
         THEN [params |-> sp, given |-> FALSE, err |-> "sort order must be ASC or DESC"]
         ELSE parseSortFields(rest, [sp EXCEPT !.order = f.value.value])
    ELSE parseSortFields(rest, sp)

parseSortFields(fields, sp) ==
    IF fields = <<>> THEN [params |-> sp, given |-> TRUE, err |-> "nil"]
    ELSE SortField(Head(fields), Tail(fields), sp)

\* parseSortParameters(arg): [params, given, err]; given is FALSE for the nil result
parseSortParameters(arg) ==
    IF arg = Nil THEN [params |-> ZeroSortParameters, given |-> FALSE, err |-> "nil"]
    ELSE IF arg.kind # "fields"
    THEN [params |-> ZeroSortParameters, given |-> FALSE,
          err |-> "unable to parse sort argument"]
    ELSE parseSortFields(arg.fields, ZeroSortParameters)

-----------------------------------------------------------------------------
(* Field names (utils.go).                                                 *)

UpperCase ==
    <<"A", "B", "C", "D", "E", "F", "G", "H", "I", "J", "K", "L", "M",
      "N", "O", "P", "Q", "R", "S", "T", "U", "V", "W", "X", "Y", "Z">>

LowerCase ==
    <<"a", "b", "c", "d", "e", "f", "g", "h", "i", "j", "k", "l", "m",
      "n", "o", "p", "q", "r", "s", "t", "u", "v", "w", "x", "y", "z">>

IsUpper(c) == \E i \in 1..Len(UpperCase) : UpperCase[i] = c
IsLetter(c) == IsUpper(c) \/ \E i \in 1..Len(LowerCase) : LowerCase[i] = c

\* strings.ToLower(s)
ToLowerChar(c) ==
    IF IsUpper(c) THEN LowerCase[CHOOSE i \in 1..Len(UpperCase) : UpperCase[i] = c] ELSE c

ToLower(s) == [i \in 1..Len(s) |-> ToLowerChar(s[i])]

\* strings.Replace(s, old, "", -1) for a one-character old
RemoveAll(s, old) == SelectSeq(s, LAMBDA c : c # old)

\* graphql.NameRegExp.MatchString(name), the expression ^[_a-zA-Z][_a-zA-Z0-9]*$
nameIsValidGraphQL(name) ==
    /\ name # <<>>
    /\ IsLetter(name[1]) \/ name[1] = "_"
    /\ \A i \in 1..Len(name) : IsLetter(name[i]) \/ IsDigit(name[i]) \/ name[i] = "_"

\* a reflect.StructField as far as fieldName reads it: its Name and the
\* value of its json tag
NamedField(Name, json) == [Name |-> Name, json |-> json]

\* fieldName that trusts the name of the tag to be a GraphQL name
fieldNameUnchecked(name, field) ==
    IF name # <<>> THEN name ELSE ToLower(RemoveAll(field.Name, "_"))

\* fieldName from the name of the tag once its "_" are removed
fieldNameStripped(name, field) ==
    IF name # <<>> /\ nameIsValidGraphQL(name) THEN name
    ELSE ToLower(RemoveAll(field.Name, "_"))

\* fieldName once the json tag is split at its commas
fieldNameOfSplits(splits, field) ==
    IF splits[1] = <<"-">> /\ Len(splits) = 1 THEN <<>>
    ELSE fieldNameStripped(RemoveAll(splits[1], "_"), field)

fieldName(field) == fieldNameOfSplits(Split(field.json, ","), field)

-----------------------------------------------------------------------------
(* The parts of the state a specification leaves at rest.                  *)

\* the goroutines that call Match on the shared limiter
Callers == 1..MaxCallers

\* no listSort is called
NoSort ==
    /\ list = <<>>
    /\ input = <<>>
    /\ params = ZeroSortParameters
    /\ wpc = "none"
    /\ errChan = "none"
    /\ ncmp = 0
    /\ spc = "none"
    /\ sortErr = "none"

\* no resolver is called
NoResolver ==
    /\ rpc = "none"
    /\ filterArg = Nil
    /\ sortArg = Nil
    /\ source = Nil
    /\ reporter = "none"
    /\ filter = NoFilter
    /\ resolved = FALSE
    /\ reported = <<>>
    /\ matchLog = <<>>
    /\ retVal = Nil
    /\ retErr = "none"

\* no function of utils.go is called on its own
NoCall ==
    /\ call = [fn |-> "none"]
    /\ answer = [done |-> FALSE]

\* no ObjectBuilder is asked for
NoBuilder ==
    /\ bargs = [fn |-> "none"]
    /\ ob = [state |-> "none"]
    /\ gTypes = <<>>

\* no limiter is shared
NoLimiter ==
    /\ limiter = NoComparator
    /\ mtx = 0
    /\ mpc = [c \in Callers |-> "idle"]
    /\ loaded = [c \in Callers |-> 0]
    /\ returns = <<>>

-----------------------------------------------------------------------------
(* listSort called directly (as TestListSortFailures calls it).            *)

\* the sort keys of the lists handed to listSort
SortKeys ==
    {IntV(1), IntV(2), Int64V(1), StrV(<<"a">>), StrV(<<"b">>),
     FloatV(15), FloatV(25), NaN, BoolV(TRUE), Nil}

\* type testItem struct { A interface{}; ID int }
testItem(key, id) == StructV(<<Fld(<<"a">>, key), Fld(<<"i", "d">>, IntV(id))>>)

KeyLists == UNION {[1..n -> SortKeys] : n \in 0..MaxLen}

\* a list of bare keys, or a list of testItems numbered by their position
SortLists ==
    KeyLists \cup {[i \in 1..Len(ks) |-> testItem(ks[i], i)] : ks \in KeyLists}

SortParams ==
    [field : {<<>>, <<"a">>, <<"b">>}, order : {<<>>, ascending, descending}]

InitSort ==
    /\ list \in SortLists
    /\ input = list
    /\ params \in SortParams
    /\ wpc = "none"
    /\ errChan = "none"
    /\ ncmp = 0
    /\ spc = "call"
    /\ sortErr = "none"
    /\ NoResolver
    /\ NoLimiter
    /\ NoCall
    /\ NoBuilder

\* listSort up to its receive: nothing to do for fewer than 2 items,
\* otherwise make the channel and start the worker goroutine
ListSortCall ==
    /\ spc = "call"
    /\ IF Len(list) < 2
       THEN /\ spc' = "returned"
            /\ sortErr' = "nil"
            /\ wpc' = wpc
       ELSE /\ spc' = "waiting"
            /\ sortErr' = sortErr
            /\ wpc' = "spawned"
    /\ UNCHANGED <<list, input, params, errChan, ncmp>>
    /\ UNCHANGED <<rlfVars, limVars, utilVars, builderVars>>

\* the worker goroutine runs unprotectedListSort up to its send on errChan;
\* a panic nothing recovered ends the program
WorkerOutcome(o) ==
    /\ list' = o.list
    /\ ncmp' = o.ncmp
    /\ errChan' = o.send
    /\ wpc' = IF o.panicked THEN "crashed" ELSE "sending"

WorkerRun ==
    /\ wpc = "spawned"
    /\ WorkerOutcome(unprotectedListSort(params, list))
    /\ UNCHANGED <<input, params, spc, sortErr>>
    /\ UNCHANGED <<rlfVars, limVars, utilVars, builderVars>>

\* err := <-errChan; return err (the rendezvous with the worker's send)
ListSortRecv ==
    /\ spc = "waiting"
    /\ wpc = "sending"
    /\ sortErr' = errChan
    /\ errChan' = "none"
    /\ wpc' = AfterSend(params, input)
    /\ spc' = "returned"
    /\ UNCHANGED <<list, input, params, ncmp>>
    /\ UNCHANGED <<rlfVars, limVars, utilVars, builderVars>>

NextSort == ListSortCall \/ WorkerRun \/ ListSortRecv

SpecSort == InitSort /\ [][NextSort]_vars

-----------------------------------------------------------------------------
(* The resolvers (builder.go).                                             *)

\* fullFieldName(name, parent): strings.Join([parent, name], "_")
fullFieldName(name, parent) == parent \o <<FieldPathSeparator>> \o name

\* a resolver that tells the reporter of the field only once the value is
\* extracted
ExtractedUntold(field, told) ==
    IF field = Panic
    THEN [val |-> Nil, err |-> "nil", reported |-> <<>>, panicked |-> TRUE]
    ELSE IF field = Nil
    THEN [val |-> Nil, err |-> "failed to extract field value from data",
          reported |-> <<>>, panicked |-> FALSE]
    ELSE [val |-> field, err |-> "nil", reported |-> told, panicked |-> FALSE]

\* ResolveByField once the reporter was told of the field:
\* value := ExtractField(p.Source, name)
ExtractedValue(field, told) ==
    IF field = Panic
    THEN [val |-> Nil, err |-> "nil", reported |-> told, panicked |-> TRUE]
    ELSE IF field = Nil
    THEN [val |-> Nil, err |-> "failed to extract field value from data",
          reported |-> told, panicked |-> FALSE]
    ELSE [val |-> field, err |-> "nil", reported |-> told, panicked |-> FALSE]

\* the resolver made by ResolveByField(name, parent), run on a source with a
\* reporter: [val, err, reported, panicked]
ResolveByField(name, parent, src, rep) ==
    IF rep = "failing"
    THEN [val |-> Nil, err |-> "reporter error",
          reported |-> <<fullFieldName(name, parent)>>, panicked |-> FALSE]
    ELSE ExtractedValue(ExtractField(src, name),
                        IF rep = "ok" THEN <<fullFieldName(name, parent)>> ELSE <<>>)

\* the filter loop's mistake of keeping the items that do not match
appendUnmatched(filtered, item, matched) ==
    IF matched THEN filtered ELSE Append(filtered, item)

\* if matched { filtered = append(filtered, item) }
appendMatched(filtered, item, matched) ==
    IF matched THEN Append(filtered, item) ELSE filtered

RECURSIVE FilterLoop(_, _, _)

\* one round of the filter loop: matched, err := filter.match(item)
FilterStep(m, items, lf, acc) ==
    IF m.panicked THEN [acc EXCEPT !.panicked = TRUE]
    ELSE IF m.err # "nil"
    THEN [acc EXCEPT !.err = "filtering and sorting is not available on hydrated items"]
    ELSE FilterLoop(Tail(items),
                    [lf EXCEPT !.op = AfterMatch(@)],
                    [acc EXCEPT !.filtered = appendMatched(@, Head(items), m.matched),
                                !.log = Append(@, m.matched)])

\* the filter loop of ResolveListField over the items left, with the filter
\* (and the state of its comparator) as it is before them:
\* [filtered, log, err, panicked]
FilterLoop(items, lf, acc) ==
    IF items = <<>> THEN acc
    ELSE FilterStep(match(lf, Head(items)), items, lf, acc)

\* the values the filter loop ranges over, were the sort made on a copy
valuesBeforeSort(sortedList, original) == original

\* the values after listSort(sortParams, values): sorted in place
valuesAfterSort(sortedList, original) == sortedList

FilterGiven(lf) == lf.op.type # "none"

\* return filtered, nil, or the error met in the loop
Filtered(r) ==
    IF r.panicked \/ r.err # "nil"
    THEN [val |-> Nil, err |-> r.err, log |-> r.log, panicked |-> r.panicked]
    ELSE [val |-> SliceV(r.filtered), err |-> "nil", log |-> r.log, panicked |-> FALSE]

\* ResolveListField from after the sort to its return:
\* [val, err, log, panicked]
ResolveListFieldTail(values, lf) ==
    IF ~FilterGiven(lf)
    THEN [val |-> SliceV(values), err |-> "nil", log |-> <<>>, panicked |-> FALSE]
    ELSE Filtered(FilterLoop(values, lf,
                     [filtered |-> <<>>, log |-> <<>>, err |-> "nil", panicked |-> FALSE]))

\* the list field the resolver is made for: ResolveListField("items", "q")
listName == <<"i", "t", "e", "m", "s">>
parentName == <<"q">>

\* the resolver returns (val, err)
Return(val, err) ==
    /\ rpc' = "done"
    /\ retVal' = val
    /\ retErr' = err

\* the resolver returns what the filter loop left, or the panic goes up
ReturnTail(t) ==
    /\ matchLog' = t.log
    /\ IF t.panicked
       THEN rpc' = "panicked" /\ UNCHANGED <<retVal, retErr>>
       ELSE Return(t.val, t.err)

\* the resolver once the field's own resolver returned rv
AfterResolve(f, sp, rv) ==
    /\ resolved' = TRUE
    /\ reported' = reported \o rv.reported
    /\ IF rv.panicked
       THEN /\ rpc' = "panicked"
            /\ UNCHANGED <<list, input, params, wpc, sortErr, filter, matchLog, retVal, retErr>>
       ELSE IF rv.err # "nil"
       THEN /\ Return(Nil, rv.err)
            /\ UNCHANGED <<list, input, params, wpc, sortErr, filter, matchLog>>
       ELSE IF ~FilterGiven(f.filter) /\ ~sp.given
       THEN /\ Return(rv.val, "nil")
            /\ UNCHANGED <<list, input, params, wpc, sortErr, filter, matchLog>>
       ELSE IF rv.val.kind # "slice"
       THEN /\ Return(Nil, "value returned from field is not a list as expected")
            /\ UNCHANGED <<list, input, params, wpc, sortErr, filter, matchLog>>
       ELSE /\ list' = rv.val.elems
            /\ input' = rv.val.elems
            /\ filter' = f.filter
            /\ IF sp.given /\ Len(rv.val.elems) >= 2
               THEN /\ params' = sp.params
                    /\ wpc' = "spawned"
                    /\ rpc' = "sorting"
                    /\ UNCHANGED <<sortErr, matchLog, retVal, retErr>>
               ELSE /\ sortErr' = IF sp.given THEN "nil" ELSE sortErr
                    /\ ReturnTail(ResolveListFieldTail(rv.val.elems, f.filter))
                    /\ UNCHANGED <<params, wpc>>

\* the resolver once both arguments are parsed
AfterParse(f, sp) ==
    IF f.err # "nil"
    THEN /\ Return(Nil, f.err)
         /\ UNCHANGED <<list, input, params, wpc, sortErr, filter, resolved, reported,
                      matchLog>>
    ELSE IF sp.err # "nil"
    THEN /\ Return(Nil, sp.err)
         /\ UNCHANGED <<list, input, params, wpc, sortErr, filter, resolved, reported,
                      matchLog>>
    ELSE AfterResolve(f, sp, ResolveByField(listName, parentName, source, reporter))

\* the resolver made by ResolveListField, from its call to its return or to
\* the receive on errChan inside listSort
RLFStart ==
    /\ rpc = "start"
    /\ AfterParse(newListFilter(filterArg), parseSortParameters(sortArg))
    /\ UNCHANGED <<errChan, ncmp, spc, filterArg, sortArg, source, reporter>>
    /\ UNCHANGED <<limVars, utilVars, builderVars>>

\* the resolver from the receive on errChan inside listSort to its return
RLFResume ==
    /\ rpc = "sorting"
    /\ wpc = "sending"
    /\ wpc' = AfterSend(params, input)
    /\ errChan' = "none"
    /\ sortErr' = errChan
    /\ IF errChan # "nil"
       THEN /\ Return(Nil, errChan)
            /\ UNCHANGED matchLog
       ELSE ReturnTail(ResolveListFieldTail(valuesAfterSort(list, input), filter))
    /\ UNCHANGED <<list, input, params, ncmp, spc>>
    /\ UNCHANGED <<filterArg, sortArg, source, reporter, filter, resolved, reported>>
    /\ UNCHANGED <<limVars, utilVars, builderVars>>

-----------------------------------------------------------------------------
(* One call of the resolver of a list field, on every input of the model.  *)

\* the values of field A in the items of the resolved lists
ItemKeys == {IntV(1), IntV(2), StrV(<<"a">>), FloatV(15), Nil}

\* an item of another struct type, which has no field A
idItem(id) == StructV(<<Fld(<<"i", "d">>, IntV(id))>>)

\* the item at position i of a list: a testItem with the key, or an idItem
\* where the key is left out
LeftOut == [kind |-> "left out"]
itemAt(key, i) == IF key = LeftOut THEN idItem(i) ELSE testItem(key, i)

\* lists of items numbered by their position, and lists of ints
ItemLists ==
    {[i \in 1..Len(ks) |-> itemAt(ks[i], i)] :
        ks \in UNION {[1..n -> ItemKeys \cup {LeftOut}] : n \in 0..MaxItems}}
    \cup UNION {[1..n -> {IntV(1), IntV(2)}] : n \in 1..MaxItems}

\* p.Source: a struct whose field "items" holds a list, a struct without the
\* field, a struct whose field "items" is no list
Sources ==
    {StructV(<<Fld(listName, SliceV(l))>>) : l \in ItemLists}
    \cup {StructV(<<>>), StructV(<<Fld(listName, IntV(1))>>)}

fField(node) == ObjectField("Field", node)
fOperation(node) == ObjectField("Operation", node)
fArgument(node) == ObjectField("Argument", node)
argValue(node) == ObjectValue(<<ObjectField("Value", node)>>)
argValues(node) == ObjectValue(<<ObjectField("Values", node)>>)

sA == <<"a">>
sB == <<"b">>

\* the limits given to LIMIT
LimitLiterals == {<<"-", "1">>, <<"0">>, <<"1">>, <<"2">>}

\* an operation with an Argument its constructor accepts
AcceptedOperations ==
    {<<opEQ, argValue(IntValue(<<"1">>))>>, <<opEQ, argValue(StringValue(sA))>>,
     <<opNE, argValue(IntValue(<<"1">>))>>,
     <<opLT, argValue(IntValue(<<"2">>))>>, <<opLE, argValue(IntValue(<<"1">>))>>,
     <<opGT, argValue(IntValue(<<"1">>))>>, <<opGE, argValue(IntValue(<<"2">>))>>,
     <<opIN, argValues(ListValue(<<StringValue(sA)>>))>>,
     <<opNOTIN, argValues(ListValue(<<StringValue(sA)>>))>>}
    \cup {<<opLIMIT, argValue(IntValue(n))>> : n \in LimitLiterals}

WellFormedFilters ==
    {FieldsArg(fld \o <<fOperation(StringValue(oa[1])), fArgument(oa[2])>>) :
        fld \in {<<>>, <<fField(StringValue(sA))>>}, oa \in AcceptedOperations}
    \cup {FieldsArg(<<fField(StringValue(path)), fOperation(StringValue(oa[1])),
                       fArgument(oa[2])>>) :
        path \in {sB, sA \o <<FieldPathSeparator>> \o sB, sB \o <<FieldPathSeparator>> \o sA},
        oa \in {<<opNE, argValue(IntValue(<<"1">>))>>, <<opLIMIT, argValue(IntValue(<<"2">>))>>}}

\* filter: "name == foo"
FilterNotAnObject == StrV(<<"a", " ", "=", "=", " ", "b">>)

MalformedFilters ==
    {FilterNotAnObject,
     \* Field is not a string
     FieldsArg(<<fField(IntValue(<<"2">>)), fOperation(StringValue(opEQ)),
                 fArgument(argValue(StringValue(sA)))>>),
     \* Operation is not a string
     FieldsArg(<<fField(StringValue(sA)),
                 fOperation(ListValue(<<StringValue(opEQ), StringValue(opNE)>>)),
                 fArgument(argValue(StringValue(sA)))>>),
     \* Argument is not an object
     FieldsArg(<<fField(StringValue(sA)), fOperation(StringValue(opEQ)),
                 fArgument(ListValue(<<StringValue(sA), StringValue(sB)>>))>>),
     \* Operation is missing
     FieldsArg(<<fField(StringValue(sA)), fArgument(argValue(StringValue(sA)))>>),
     \* Operation is empty
     FieldsArg(<<fField(StringValue(sA)), fOperation(StringValue(<<>>)),
                 fArgument(argValue(StringValue(sA)))>>),
     \* Operation is not registered
     FieldsArg(<<fField(StringValue(sA)), fOperation(StringValue(<<"i", "s">>)),
                 fArgument(argValue(StringValue(sA)))>>),
     \* the Argument does not match the operation
     FieldsArg(<<fField(StringValue(sA)), fOperation(StringValue(opIN)),
                 fArgument(argValue(StringValue(sA)))>>),
     FieldsArg(<<fField(StringValue(sA)), fOperation(StringValue(opIN)),
                 fArgument(argValues(ListValue(<<IntValue(<<"1">>)>>)))>>),
     FieldsArg(<<fField(StringValue(sA)), fOperation(StringValue(opLT)),
                 fArgument(argValue(StringValue(sA)))>>),
     FieldsArg(<<fOperation(StringValue(opLIMIT)),
                 fArgument(argValue(StringValue(sA)))>>),
     FieldsArg(<<fField(StringValue(sA)), fOperation(StringValue(opEQ)),
                 fArgument(argValue(ListValue(<<IntValue(<<"1">>)>>)))>>),
     \* no Argument at all
     FieldsArg(<<fField(StringValue(sA)), fOperation(StringValue(opEQ))>>),
     FieldsArg(<<fOperation(StringValue(opLIMIT))>>),
     \* an object within the Argument object
     FieldsArg(<<fField(StringValue(sA)), fOperation(StringValue(opEQ)),
                 fArgument(argValue(argValue(StringValue(sA))))>>)}

FilterArgs == {Nil} \cup WellFormedFilters \cup MalformedFilters

fOrder(node) == ObjectField("Order", node)

SortArgs ==
    {Nil,
     StrV(<<"a">>),
     FieldsArg(<<>>),
     FieldsArg(<<fField(StringValue(sA))>>),
     FieldsArg(<<fField(StringValue(sA)), fOrder(StringValue(ascending))>>),
     FieldsArg(<<fField(StringValue(sA)), fOrder(StringValue(descending))>>),
     FieldsArg(<<fField(StringValue(sB))>>),
     FieldsArg(<<fField(StringValue(sA)), fOrder(StringValue(<<"a">>))>>),
     FieldsArg(<<fField(IntValue(<<"2">>)), fOrder(StringValue(ascending))>>)}

Reporters == {"none", "ok", "failing"}

Init ==
    /\ rpc = "start"
    /\ filterArg \in FilterArgs
    /\ sortArg \in SortArgs
    /\ source \in Sources
    /\ reporter \in Reporters
    /\ filter = NoFilter
    /\ resolved = FALSE
    /\ reported = <<>>
    /\ matchLog = <<>>
    /\ retVal = Nil
    /\ retErr = "none"
    /\ NoSort
    /\ NoLimiter
    /\ NoCall
    /\ NoBuilder

Next == RLFStart \/ WorkerRun \/ RLFResume

Spec == Init /\ [][Next]_vars

-----------------------------------------------------------------------------
(* The ObjectBuilder: Go types, GraphQL types, and the building of fields. *)

\* reflect.Type: a kind, for a slice its element type, for a struct its
\* name, its package and its fields
BasicType(kind) == [kind |-> kind]
SliceType(elem) == [kind |-> "slice", elem |-> elem]
StructType(name, fields) ==
    [kind |-> "struct", name |-> name, pkg |-> <<"m">>, fields |-> fields]
TimeType ==
    [kind |-> "struct", name |-> <<"T", "i", "m", "e">>,
     pkg |-> <<"t", "i", "m", "e">>, fields |-> <<>>]

\* reflect.StructField: the declared name, the json and the description tag,
\* the type, and whether the field is an embedded one
StructField(Name, json, description, Type) ==
    [Name |-> Name, json |-> json, description |-> description,
     Type |-> Type, Anonymous |-> FALSE]
EmbeddedField(Type) ==
    [Name |-> Type.name, json |-> <<>>, description |-> <<>>,
     Type |-> Type, Anonymous |-> TRUE]

\* field.PkgPath == "": the name of the field starts with an upper-case letter
IsExported(field) == IsUpper(field.Name[1])

\* graphql.Type: the scalars, lists, non-null types and objects; Nil is the
\* nil type. An object carries the round of building that allocated it.
Scalar(name) == [kind |-> "scalar", name |-> name]
NewList(ofType) == [kind |-> "list", OfType |-> ofType]
NewNonNull(ofType) == [kind |-> "nonnull", OfType |-> ofType]
NewObject(round, name, fields, interfaces) ==
    [kind |-> "object", round |-> round, name |-> name,
     fields |-> fields, interfaces |-> interfaces]

\* graphql.GetNullable(gtype)
GetNullable(gtype) == IF gtype.kind = "nonnull" THEN gtype.OfType ELSE gtype

graphqlKinds(kind) ==
    CASE kind = "bool" -> Scalar("Boolean")
      [] kind \in {"float32", "float64"} -> Scalar("Float")
      [] kind \in {"int", "int64"} -> Scalar("Int")
      [] kind = "string" -> Scalar("String")
      [] OTHER -> Nil

deprecationPrefix == <<"D", "E", "P", "R", "E", "C", "A", "T", "E", "D", ":">>

\* strings.HasPrefix(str, prefix)
HasPrefix(str, prefix) ==
    Len(str) >= Len(prefix) /\ SubSeq(str, 1, Len(prefix)) = prefix

\* strings.Title(name) of a name of one word
Title(name) ==
    [i \in 1..Len(name) |->
        IF i = 1 /\ \E j \in 1..Len(LowerCase) : LowerCase[j] = name[1]
        THEN UpperCase[CHOOSE j \in 1..Len(LowerCase) : LowerCase[j] = name[1]]
        ELSE name[i]]

\* m[k] = v of a Go map
Put(m, k, v) == [x \in DOMAIN m \cup {k} |-> IF x = k THEN v ELSE m[x]]

\* *graphql.Field as buildFields sets it up for a struct field
GeneratedField(name, gtype, description, resolve) ==
    [Name |-> name, Type |-> gtype,
     Description |-> IF HasPrefix(description, deprecationPrefix) THEN <<>> ELSE description,
     DeprecationReason |-> IF HasPrefix(description, deprecationPrefix) THEN description ELSE <<>>,
     Args |-> IF resolve = "ResolveListField" THEN {"filter", "sort"} ELSE {},
     Resolve |-> resolve]

\* the total<Name> field next to a list field
TotalField(totalName) ==
    [Name |-> totalName, Type |-> Scalar("Int"), Description |-> <<"t">>,
     DeprecationReason |-> <<>>, Args |-> {}, Resolve |-> "ResolveTotalCount"]

totalName(name) == <<"t", "o", "t", "a", "l">> \o Title(name)

\* checkType is a *graphql.List
IsListType(gtype) == GetNullable(gtype).kind = "list"

\* for _, sp := range splits { if sp == "omitempty" ... }
omitEmpty(splits) ==
    \E i \in 1..Len(splits) : splits[i] = <<"o", "m", "i", "t", "e", "m", "p", "t", "y">>

\* fieldGraphQLType once graphQLType returned gtype
fieldTypeOf(gtype, field) ==
    IF GetNullable(gtype) = Nil THEN gtype
    ELSE IF omitEmpty(Split(field.json, ",")) THEN gtype
    ELSE NewNonNull(gtype)

\* gfields[name] = f, and the total field before it for a list
WithGenerated(gfields, name, gtype, field) ==
    IF IsListType(gtype)
    THEN Put(Put(gfields, totalName(name), TotalField(totalName(name))),
             name, GeneratedField(name, gtype, field.description, "ResolveListField"))
    ELSE Put(gfields, name, GeneratedField(name, gtype, field.description, "ResolveByField"))

\* one round of the loop of buildFields, gtype the type of the field
WithField(gfields, field, gtype) ==
    IF gtype = Nil THEN gfields
    ELSE WithGenerated(gfields, fieldName(field), gtype, field)

\* for _, field := range fields { gfields[field.Name] = field }
RECURSIVE WithAdditions(_, _)
WithAdditions(gfields, fields) ==
    IF fields = <<>> THEN gfields
    ELSE WithAdditions(Put(gfields, Head(fields).Name, Head(fields)), Tail(fields))

\* an overlay that only fills the names the struct left free
AdditionsBelow(adds, parent, gfields) ==
    IF parent \in DOMAIN adds
    THEN [k \in DOMAIN gfields \cup DOMAIN WithAdditions(EmptyMap, adds[parent]) |->
            IF k \in DOMAIN gfields THEN gfields[k]
            ELSE WithAdditions(EmptyMap, adds[parent])[k]]
    ELSE gfields

\* if fields, ok := ob.fieldAdditions[parent]; ok { ... }
AdditionsLast(adds, parent, gfields) ==
    IF parent \in DOMAIN adds THEN WithAdditions(gfields, adds[parent]) ELSE gfields

RECURSIVE buildFields(_, _, _, _, _)
RECURSIVE graphQLType(_, _, _, _, _)

\* buildObject(sType, name, gInterfaces, baseFields) in round round of a
\* builder whose fieldAdditions are adds
buildObject(adds, round, sType, name, gInterfaces, baseFields) ==
    NewObject(round, ToLower(name),
              buildFields(adds, round, sType, ToLower(name), baseFields), gInterfaces)

graphQLType(adds, round, rType, name, parent) ==
    IF rType.kind = "struct"
    THEN IF rType.pkg = <<"t", "i", "m", "e">> THEN Scalar("DateTime")
         ELSE buildObject(adds, round, rType, fullFieldName(name, parent), {}, EmptyMap)
    ELSE IF rType.kind = "slice"
    THEN NewList(graphQLType(adds, round, rType.elem, name, parent))
    ELSE graphqlKinds(rType.kind)

fieldGraphQLType(adds, round, field, parent) ==
    fieldTypeOf(graphQLType(adds, round, field.Type, fieldName(field), parent), field)

\* the loop of buildFields over the fields of sType from field i on
RECURSIVE FieldsLoop(_, _, _, _, _, _)
FieldsLoop(adds, round, sType, parent, gfields, i) ==
    IF i > Len(sType.fields) THEN gfields
    ELSE IF sType.fields[i].Anonymous
    THEN FieldsLoop(adds, round, sType, parent, gfields, i + 1)
    ELSE FieldsLoop(adds, round, sType, parent,
                    WithField(gfields, sType.fields[i],
                              fieldGraphQLType(adds, round, sType.fields[i], parent)),
                    i + 1)

\* buildFields(sType, parent, baseFields) for a struct type
buildFields(adds, round, sType, parent, baseFields) ==
    AdditionsLast(adds, parent, FieldsLoop(adds, round, sType, parent, baseFields, 1))

-----------------------------------------------------------------------------
(* The methods of the ObjectBuilder.                                       *)

\* strings.Contains(str, sep) that looks at the first character only
ContainsAtStart(str, sep) == str # <<>> /\ str[1] = sep

\* strings.Contains(str, sep) for a separator of one character
Contains(str, sep) == \E i \in 1..Len(str) : str[i] = sep

\* the *ObjectBuilder NewObjectBuilder returns; a nil table of additions is
\* the empty one, interfaceFields and interfaces are nil (built is FALSE)
MadeBuilder(structs, namePrefix, fieldAdditions) ==
    [state |-> "made", fieldAdditions |-> fieldAdditions, prefix |-> namePrefix,
     structs |-> structs, objects |-> EmptyMap, built |-> FALSE,
     interfaces |-> EmptyMap, interfaceFields |-> EmptyMap,
     round |-> 0, calls |-> 0, last |-> "NewObjectBuilder", trace |-> <<>>]

NewObjectBuilder ==
    /\ bargs.fn = "NewObjectBuilder"
    /\ ob.state = "none"
    /\ ob' = IF Contains(bargs.namePrefix, FieldPathSeparator)
             THEN [state |-> "error"]
             ELSE MadeBuilder(bargs.structs, bargs.namePrefix, bargs.fieldAdditions)
    /\ UNCHANGED <<bargs, gTypes, sortVars, rlfVars, limVars, utilVars>>

\* extractEmbeds(parent): the exported embedded structs of a struct type
extractEmbeds(sType) ==
    IF sType.kind # "struct" THEN {}
    ELSE {sType.fields[i].Type : i \in {j \in 1..Len(sType.fields) :
            sType.fields[j].Anonymous /\ IsExported(sType.fields[j])}}

\* allEmbeds of BuildInterfaces
allEmbeds(structs) == UNION {extractEmbeds(structs[i]) : i \in 1..Len(structs)}

\* the embedded struct of that type name
EmbedNamed(embeds, name) == CHOOSE e \in embeds : e.name = name

\* the builder after BuildInterfaces ran over the embedded structs embeds
AfterBuildInterfaces(b, embeds) ==
    [b EXCEPT !.built = TRUE,
              !.round = b.round + 1,
              !.interfaceFields =
                  [n \in {e.name : e \in embeds} |->
                      buildFields(b.fieldAdditions, b.round + 1, EmbedNamed(embeds, n),
                                  b.prefix \o n, EmptyMap)],
              !.interfaces =
                  [n \in {e.name : e \in embeds} |->
                      [kind |-> "interface", name |-> b.prefix \o n, round |-> b.round + 1]]]

\* a method of the builder was called
Called(b, method) ==
    [b EXCEPT !.calls = b.calls + 1, !.last = method,
              !.trace = Append(@, [method |-> method, table |-> EmptyMap])]

\* AddCustomFields was called with the table
CalledWith(b, table) ==
    [b EXCEPT !.calls = b.calls + 1, !.last = "AddCustomFields",
              !.trace = Append(@, [method |-> "AddCustomFields", table |-> table])]

BuildInterfaces ==
    /\ ob.state = "made"
    /\ ob.calls < MaxBuilds
    /\ ob' = Called(AfterBuildInterfaces(ob, allEmbeds(ob.structs)), "BuildInterfaces")
    /\ UNCHANGED <<bargs, gTypes, sortVars, rlfVars, limVars, utilVars>>

\* the orders in which a range over a Go map with these keys may run
Orders(keys) ==
    {o \in [1..Cardinality(keys) -> keys] :
        \A i, j \in 1..Cardinality(keys) : o[i] = o[j] => i = j}

\* no field is inherited
noBaseFields(b, order, i, baseFields) == EmptyMap

\* baseFields of buildType: the interfaceFields of the embedded structs,
\* copied in the order the range over extractEmbeds takes
RECURSIVE baseFieldsOf(_, _, _, _)
baseFieldsOf(b, order, i, baseFields) ==
    IF i > Len(order) THEN baseFields
    ELSE baseFieldsOf(b, order, i + 1,
            IF order[i] \in DOMAIN b.interfaceFields
            THEN [k \in DOMAIN baseFields \cup DOMAIN b.interfaceFields[order[i]] |->
                    IF k \in DOMAIN b.interfaceFields[order[i]]
                    THEN b.interfaceFields[order[i]][k] ELSE baseFields[k]]
            ELSE baseFields)

\* gIfaces of buildType
gIfacesOf(b, order) ==
    {b.interfaces[order[i]] : i \in {j \in 1..Len(order) : order[j] \in DOMAIN b.interfaces}}

\* buildType(srcStruct), the range over its embedded structs in that order
buildType(b, sType, order) ==
    IF gIfacesOf(b, order) = {}
    THEN buildObject(b.fieldAdditions, b.round, sType, b.prefix \o sType.name, {}, EmptyMap)
    ELSE buildObject(b.fieldAdditions, b.round, sType, b.prefix \o sType.name,
                     gIfacesOf(b, order), baseFieldsOf(b, order, 1, EmptyMap))

\* ob.objects after the loop of BuildTypes returned types
objectsAfter(objects, types) ==
    [n \in DOMAIN objects \cup {types[i].name : i \in {j \in 1..Len(types) : types[j].interfaces # {}}} |->
        IF \E i \in 1..Len(types) : types[i].interfaces # {} /\ types[i].name = n
        THEN types[CHOOSE i \in 1..Len(types) :
                /\ types[i].interfaces # {} /\ types[i].name = n
                /\ \A j \in (i + 1)..Len(types) :
                       ~(types[j].interfaces # {} /\ types[j].name = n)]
        ELSE objects[n]]

\* the loop of BuildTypes over ob.structs
typesOf(b, orders) == [i \in 1..Len(b.structs) |-> buildType(b, b.structs[i], orders[i])]

\* BuildTypes that builds the interfaces anew in every call
WithNewInterfaces(b) == AfterBuildInterfaces(b, allEmbeds(b.structs))

\* if ob.interfaceFields == nil { ob.BuildInterfaces() }
WithInterfaces(b) ==
    IF b.built THEN b ELSE AfterBuildInterfaces(b, allEmbeds(b.structs))

\* BuildTypes once the interfaces are there
BuildTypesWith(b, orders) ==
    /\ gTypes' = typesOf(b, orders)
    /\ ob' = Called([b EXCEPT !.objects = objectsAfter(b.objects, typesOf(b, orders))],
                    "BuildTypes")

BuildTypes ==
    /\ ob.state = "made"
    /\ ob.calls < MaxBuilds
    /\ \E orders \in [1..Len(ob.structs) -> UNION {Orders({e.name : e \in extractEmbeds(ob.structs[i])}) :
                                                    i \in 1..Len(ob.structs)}] :
          /\ \A i \in 1..Len(ob.structs) :
                 orders[i] \in Orders({e.name : e \in extractEmbeds(ob.structs[i])})
          /\ BuildTypesWith([WithInterfaces(ob) EXCEPT !.round = @ + 1], orders)
    /\ UNCHANGED <<bargs, sortVars, rlfVars, limVars, utilVars>>

\* resolveObjectByName(p) for a value of the struct type sType: the object
\* stored under ob.prefix + strings.ToLower(sType.Name()), nil when there is
\* none
resolveObjectByName(b, sType) ==
    IF b.prefix \o ToLower(sType.name) \in DOMAIN b.objects
    THEN b.objects[b.prefix \o ToLower(sType.name)]
    ELSE Nil

\* resolveGraphQLObject(object)
RECURSIVE resolveGraphQLObject(_)
resolveGraphQLObject(gtype) ==
    IF gtype.kind = "object" THEN gtype
    ELSE IF gtype.kind \in {"nonnull", "list"} THEN resolveGraphQLObject(gtype.OfType)
    ELSE Nil

\* findObjectField(fields, path) finds an object
RECURSIVE FindsObject(_, _)
FindsObject(fields, path) ==
    /\ path # <<>>
    /\ Head(path) \in DOMAIN fields
    /\ resolveGraphQLObject(fields[Head(path)].Type) # Nil
    /\ Len(path) = 1 \/ FindsObject(resolveGraphQLObject(fields[Head(path)].Type).fields, Tail(path))

\* AddFieldConfig(field.Name, field) for every field of the list, on the
\* Fields of an interface or of an object
RECURSIVE AddFieldConfigs(_, _)
AddFieldConfigs(fields, added) ==
    IF added = <<>> THEN fields
    ELSE AddFieldConfigs(IF Head(added).Name = <<>> THEN fields
                         ELSE Put(fields, Head(added).Name, Head(added)),
                         Tail(added))

\* the fields after the object findObjectField(fields, path) returns was
\* given the added fields: the object is shared by all that point to it
RECURSIVE AddedAt(_, _, _)
RECURSIVE AddedInType(_, _, _)
AddedInType(gtype, rest, added) ==
    IF gtype.kind = "object"
    THEN [gtype EXCEPT !.fields = IF rest = <<>> THEN AddFieldConfigs(@, added)
                                   ELSE AddedAt(@, rest, added)]
    ELSE [gtype EXCEPT !.OfType = AddedInType(@, rest, added)]

AddedAt(fields, path, added) ==
    [fields EXCEPT ![Head(path)] =
        [@ EXCEPT !.Type = AddedInType(@, Tail(path), added)]]

\* an object built before, which holds the *graphql.Field of the interface
\* (and so the object in it) when it inherited the field
Shared(object, ifields, path, added) ==
    IF /\ Head(path) \in DOMAIN object.fields
       /\ object.fields[Head(path)] = ifields[Head(path)]
    THEN [object EXCEPT !.fields = AddedAt(@, path, added)]
    ELSE object

\* one round of the loop of AddCustomFields, st the builder and the types
\* returned before
AddFor(st, key, splits) ==
    IF ~(st.b.built /\ Head(splits) \in DOMAIN st.b.interfaces)
    THEN [st EXCEPT !.b.fieldAdditions = Put(@, key, st.table[key])]
    ELSE IF FindsObject(st.b.interfaceFields[Head(splits)], Tail(splits))
    THEN [st EXCEPT
            !.b.fieldAdditions = Put(@, key, st.table[key]),
            !.b.interfaceFields[Head(splits)] = AddedAt(@, Tail(splits), st.table[key]),
            !.b.objects = [n \in DOMAIN @ |->
                Shared(@[n], st.b.interfaceFields[Head(splits)], Tail(splits), st.table[key])],
            !.types = [i \in 1..Len(@) |->
                Shared(@[i], st.b.interfaceFields[Head(splits)], Tail(splits), st.table[key])]]
    ELSE [st EXCEPT
            !.b.fieldAdditions = Put(@, key, st.table[key]),
            !.b.interfaceFields[Head(splits)] = AddFieldConfigs(@, st.table[key])]

\* the loop of AddCustomFields over the keys of the table in that order
RECURSIVE AddLoop(_, _, _)
AddLoop(st, order, i) ==
    IF i > Len(order) THEN st
    ELSE AddLoop(AddFor(st, order[i], Split(order[i], FieldPathSeparator)), order, i + 1)

\* custom fields, as a program hands them in
CustomField(name, gtype) ==
    [Name |-> name, Type |-> gtype, Description |-> <<"c">>,
     DeprecationReason |-> <<>>, Args |-> {}, Resolve |-> "custom"]

\* the names of the model's types: structs S and R, embedded TB and TC
nS == <<"S">>
nR == <<"R">>
nTB == <<"T", "B">>
nTC == <<"T", "C">>
nId == <<"i", "d">>

\* overlays for the object of struct S (prefix none or P), for the
\* interface of TB, and for the object nested in it
ObjectOverlay ==
    (<<"s">> :> <<CustomField(nId, Scalar("ID")), CustomField(sA, Scalar("ID"))>>)
    @@ (<<"p", "s">> :> <<CustomField(nId, Scalar("ID")), CustomField(sA, Scalar("ID"))>>)
InterfaceOverlay ==
    (nTB :> <<CustomField(<<"z">>, Scalar("ID"))>>)
NestedOverlay ==
    (nTB \o <<"_", "n">> :> <<CustomField(<<"z">>, Scalar("ID"))>>)

\* an overlay for a path that ends in no field of TB, and one that
\* replaces the field n of TB and adds to the object nested in n
UnresolvedOverlay ==
    (nTB \o <<"_", "q">> :> <<CustomField(<<"w">>, Scalar("ID"))>>)
MixedOverlay ==
    (nTB :> <<CustomField(<<"n">>, Scalar("ID"))>>)
    @@ (nTB \o <<"_", "n">> :> <<CustomField(<<"v">>, Scalar("ID"))>>)


AddCustomFields ==
    /\ ob.state = "made"
    /\ ob.calls < MaxBuilds
    /\ \E table \in bargs.tables :
          \E order \in Orders(DOMAIN table) :
             /\ ob' = CalledWith(AddLoop([b |-> ob, types |-> gTypes, table |-> table], order, 1).b,
                                 table)
             /\ gTypes' = AddLoop([b |-> ob, types |-> gTypes, table |-> table], order, 1).types
    /\ UNCHANGED <<bargs, sortVars, rlfVars, limVars, utilVars>>

\* the field types of the model
tString == BasicType("string")
tInt == BasicType("int")
tChan == BasicType("chan")
tNested ==
    StructType(<<"N">>, <<StructField(<<"X">>, <<>>, <<>>, tString),
                          StructField(<<"y">>, <<>>, <<>>, tInt)>>)

\* the embedded structs: TB and TC both have a field Id, TB has a nested
\* struct; tu is unexported
tTB == StructType(nTB, <<StructField(<<"I", "d">>, <<>>, <<"x">>, tString),
                         StructField(<<"N">>, <<>>, <<>>, tNested)>>)
tTC == StructType(nTC, <<StructField(<<"I", "d">>, <<",", "o", "m", "i", "t", "e", "m", "p", "t", "y">>, <<>>, tInt),
                         StructField(<<"I", "d", "2">>, <<>>, <<>>, tString)>>)
tTU == StructType(<<"t", "u">>, <<StructField(<<"E", "x">>, <<>>, <<>>, BasicType("bool"))>>)

\* the fields a registered struct may declare
OwnFields ==
    {StructField(<<"A">>, <<>>, <<"x">>, tString),
     StructField(<<"B">>, <<"-">>, <<>>, tString),
     StructField(<<"b">>, <<>>, <<>>, tString),
     StructField(<<"C">>, <<"o", "m", "i", "t", "e", "m", "p", "t", "y">>, <<>>, tInt),
     StructField(<<"D">>, <<"d", ",", "o", "m", "i", "t", "e", "m", "p", "t", "y">>, <<>>, tInt),
     StructField(<<"E">>, <<>>, <<>>, tChan),
     StructField(<<"L">>, <<>>, <<>>, SliceType(tString)),
     StructField(<<"N">>, <<>>, <<>>, tNested),
     StructField(<<"I", "d">>, <<>>, deprecationPrefix \o <<"x">>, tInt),
     StructField(<<"T">>, <<"-", ",">>, <<>>, TimeType)}

EmbedLists ==
    {<<>>, <<EmbeddedField(tTB)>>, <<EmbeddedField(tTU)>>,
     <<EmbeddedField(tTB), EmbeddedField(tTC)>>,
     <<EmbeddedField(tTB), EmbeddedField(tTU)>>}

\* the struct S, and the lists of structs handed to NewObjectBuilder: S
\* alone or followed by R, which embeds TB
StructsS ==
    {StructType(nS, e \o f) : e \in EmbedLists, f \in {<<>>} \cup {<<o>> : o \in OwnFields}}
tR == StructType(nR, <<EmbeddedField(tTB), StructField(<<"A">>, <<>>, <<>>, tInt)>>)

\* a struct type s next to S
tLowerS == StructType(<<"s">>, <<StructField(<<"Z">>, <<>>, <<>>, tInt)>>)

\* what a program does with a builder: the arguments of NewObjectBuilder
\* and the tables it may hand to AddCustomFields later
BuilderArgs ==
    {[fn |-> "NewObjectBuilder", structs |-> l, namePrefix |-> p, fieldAdditions |-> t,
      tables |-> {ObjectOverlay, InterfaceOverlay, NestedOverlay}] :
        l \in {<<x>> : x \in StructsS} \cup {<<x, tR>> : x \in StructsS},
        p \in {<<>>, <<"P">>, <<"p", "_">>},
        t \in {EmptyMap, ObjectOverlay, InterfaceOverlay}}

InitBuilder ==
    /\ bargs \in BuilderArgs
    /\ ob = [state |-> "none"]
    /\ gTypes = <<>>
    /\ NoSort
    /\ NoResolver
    /\ NoLimiter
    /\ NoCall

NextBuilder == NewObjectBuilder \/ AddCustomFields \/ BuildInterfaces \/ BuildTypes

SpecBuilder == InitBuilder /\ [][NextBuilder]_vars

\* programs that overlay the interfaces: S embeds TB, or TB and TC, and
\* may have a nested struct of its own; R or s may follow it
OverlayArgs ==
    {[fn |-> "NewObjectBuilder", structs |-> l, namePrefix |-> p, fieldAdditions |-> t,
      tables |-> {InterfaceOverlay, NestedOverlay, UnresolvedOverlay, MixedOverlay}] :
        l \in {<<StructType(nS, e \o f)>> \o r :
                  e \in {<<EmbeddedField(tTB)>>, <<EmbeddedField(tTB), EmbeddedField(tTC)>>},
                  f \in {<<>>, <<StructField(<<"N">>, <<>>, <<>>, tNested)>>},
                  r \in {<<>>, <<tR>>, <<tLowerS>>}},
        p \in {<<>>, <<"P">>, <<"q">>},
        t \in {EmptyMap, InterfaceOverlay}}

InitOverlay ==
    /\ bargs \in OverlayArgs
    /\ ob = [state |-> "none"]
    /\ gTypes = <<>>
    /\ NoSort
    /\ NoResolver
    /\ NoLimiter
    /\ NoCall

SpecOverlay == InitOverlay /\ [][NextBuilder]_vars

-----------------------------------------------------------------------------
(* The functions of utils.go called on their own.                          *)

sC == <<"c">>
sD == <<"d">>

\* structs within structs, two levels deep
Inner1 == StructV(<<Fld(sB, IntV(2))>>)
Inner2 == StructV(<<Fld(sB, StructV(<<Fld(sC, IntV(3))>>)), Fld(sC, Nil)>>)

\* an embedded struct of an exported and of an unexported type
TestBase == Embedded(<<"t", "b">>, TRUE, StructV(<<Fld(sC, IntV(3))>>))
testUnexported == Embedded(<<"t", "u">>, FALSE, StructV(<<Fld(sD, IntV(4))>>))

\* the structs handed to the extraction: a field a or none, embedded
\* structs or none, a field b or none
Records ==
    {StructV(a \o e \o b) :
        a \in {<<>>, <<UFld(sA, IntV(1))>>}
               \cup {<<Fld(sA, v)>> : v \in {IntV(1), Nil, Inner1, Inner2,
                                              SliceV(<<IntV(1)>>), PtrV(Inner1)}},
        e \in {<<>>, <<TestBase>>, <<testUnexported>>,
               <<TestBase, testUnexported>>, <<testUnexported, TestBase>>},
        b \in {<<>>, <<Fld(sB, Inner2)>>, <<UFld(sB, IntV(2))>>}}

\* what is no struct: a scalar, a slice, a pointer, the nil interface value
NonStructs == {IntV(1), StrV(sA), SliceV(<<Inner1>>), PtrV(Inner1), Nil}

ExtractKeys == {sA, sB, sC, sD, <<"t", "b">>, <<"t", "u">>}

\* strings.Join(segs, FieldPathSeparator)
RECURSIVE JoinPath(_)
JoinPath(segs) ==
    IF Len(segs) = 1 THEN segs[1]
    ELSE segs[1] \o <<FieldPathSeparator>> \o JoinPath(Tail(segs))

Paths == UNION {[1..n -> {sA, sB, sC}] : n \in 1..MaxPath}

\* the strings of up to n characters
Strings(chars, n) == UNION {[1..k -> chars] : k \in 0..n}

\* the options that follow the name in a json tag
TagOptions == {<<>>, <<",">>, <<",", "o", "m", "i", "t", "e", "m", "p", "t", "y">>}

UtilCalls ==
    {[fn |-> "ExtractField", s |-> s, key |-> k] :
        s \in Records \cup NonStructs, k \in ExtractKeys}
    \cup {[fn |-> "deepExtractFieldWithError", s |-> s, segs |-> p, key |-> JoinPath(p)] :
        s \in Records \cup NonStructs, p \in Paths}
    \cup {[fn |-> "fieldName", field |-> NamedField(n, t \o o)] :
        n \in Strings({"A", "b", "_"}, MaxName),
        t \in Strings({"-", "_", "A", "b", "1"}, MaxName),
        o \in TagOptions}

InitUtils ==
    /\ call \in UtilCalls
    /\ answer = [done |-> FALSE]
    /\ NoSort
    /\ NoResolver
    /\ NoLimiter
    /\ NoBuilder

\* the call returns val
Answer(val) ==
    /\ ~answer.done
    /\ answer' = [done |-> TRUE, val |-> val]
    /\ UNCHANGED <<call, sortVars, rlfVars, limVars, builderVars>>

CallExtractField ==
    /\ call.fn = "ExtractField"
    /\ Answer(ExtractField(call.s, call.key))

CallDeepExtractField ==
    /\ call.fn = "deepExtractFieldWithError"
    /\ Answer(deepExtractFieldWithError(call.s, call.key))

CallFieldName ==
    /\ call.fn = "fieldName"
    /\ Answer(fieldName(call.field))

NextUtils == CallExtractField \/ CallDeepExtractField \/ CallFieldName

SpecUtils == InitUtils /\ [][NextUtils]_vars

-----------------------------------------------------------------------------
(* Several goroutines calling Match on one *limitLength.                   *)

\* the limits the limiter is constructed with
LimitValues == {Atoi(literal).n : literal \in LimitLiterals}

InitLimit ==
    /\ \E n \in LimitValues :
          limiter = NewLimitLengthComparator([Value |-> IntV(n)]).op
    /\ mtx = 0
    /\ mpc = [c \in Callers |-> "idle"]
    /\ loaded = [c \in Callers |-> 0]
    /\ returns = <<>>
    /\ NoSort
    /\ NoResolver
    /\ NoCall
    /\ NoBuilder

\* the calls of Match made so far, returned or not
Started == Len(returns) + Cardinality({c \in Callers : mpc[c] # "idle"})

\* a mutex that lets every caller through
mtxIgnored(holder) == TRUE

\* sync.Mutex: Lock gets through when nobody holds the mutex
mtxFree(holder) == holder = 0

\* a caller calls limiter.Match(raw)
MatchCall(c) ==
    /\ mpc[c] = "idle"
    /\ Started < MaxCalls
    /\ mpc' = [mpc EXCEPT ![c] = "lock"]
    /\ UNCHANGED <<limiter, mtx, loaded, returns>>
    /\ UNCHANGED <<sortVars, rlfVars, utilVars, builderVars>>

\* c.mtx.Lock()
MatchLock(c) ==
    /\ mpc[c] = "lock"
    /\ mtxFree(mtx)
    /\ mtx' = c
    /\ mpc' = [mpc EXCEPT ![c] = "load"]
    /\ UNCHANGED <<limiter, loaded, returns>>
    /\ UNCHANGED <<sortVars, rlfVars, utilVars, builderVars>>

\* c.count++, the read of c.count
MatchLoad(c) ==
    /\ mpc[c] = "load"
    /\ loaded' = [loaded EXCEPT ![c] = limiter.count]
    /\ mpc' = [mpc EXCEPT ![c] = "store"]
    /\ UNCHANGED <<limiter, mtx, returns>>
    /\ UNCHANGED <<sortVars, rlfVars, utilVars, builderVars>>

\* c.count++, the write of c.count
MatchStore(c) ==
    /\ mpc[c] = "store"
    /\ limiter' = [limiter EXCEPT !.count = limitCount([count |-> loaded[c]])]
    /\ loaded' = [loaded EXCEPT ![c] = 0]
    /\ mpc' = [mpc EXCEPT ![c] = "return"]
    /\ UNCHANGED <<mtx, returns>>
    /\ UNCHANGED <<sortVars, rlfVars, utilVars, builderVars>>

\* if c.count > c.limit { return false }; return true, and the deferred
\* c.mtx.Unlock()
MatchReturn(c) ==
    /\ mpc[c] = "return"
    /\ returns' = Append(returns, [caller |-> c,
                                    value |-> limitMatch(limiter.count, limiter.limit)])
    /\ mtx' = 0
    /\ mpc' = [mpc EXCEPT ![c] = "idle"]
    /\ UNCHANGED <<limiter, loaded>>
    /\ UNCHANGED <<sortVars, rlfVars, utilVars, builderVars>>

NextLimit ==
    \E c \in Callers :
        MatchCall(c) \/ MatchLock(c) \/ MatchLoad(c) \/ MatchStore(c) \/ MatchReturn(c)

SpecLimit == InitLimit /\ [][NextLimit]_vars

-----------------------------------------------------------------------------
(* Properties of listSort, checked under SpecSort.                         *)

\* the sort key of an item under the running sort parameters
SortKeyOf(item) == extracFunc(<<item>>, params.field, 1)

\* == on two sort keys of the same supported type
KeyEq(x, y) ==
    IF x.kind # y.kind THEN FALSE
    ELSE IF x.kind = "float64" THEN ~x.nan /\ ~y.nan /\ x.v = y.v
    ELSE x.v = y.v

Occurrences(l, x) == Cardinality({i \in 1..Len(l) : l[i] = x})

IsPermutation(l, m) ==
    /\ Len(l) = Len(m)
    /\ \A i \in 1..Len(m) : Occurrences(l, m[i]) = Occurrences(m, m[i])

\* every sort key of the input is of the one supported kind of the first
OneSupportedKind ==
    /\ SortKeyOf(input[1]).kind \in SupportedKinds
    /\ \A i \in 1..Len(input) : SortKeyOf(input[i]).kind = SortKeyOf(input[1]).kind

\* the keys of the list are in the order asked for: no item comes before
\* an item whose key is smaller (ascending) or greater (descending)
InOrder ==
    \A i, j \in 1..Len(list) :
        i < j => IF params.order = descending
                 THEN ~KeyLess(SortKeyOf(list[i]).kind, SortKeyOf(list[i]), SortKeyOf(list[j]))
                 ELSE ~KeyLess(SortKeyOf(list[i]).kind, SortKeyOf(list[j]), SortKeyOf(list[i]))

\* the list is made of testItems, which carry their input position as ID
OfTestItems == \A i \in 1..Len(input) : input[i].kind = "struct"

InputPosition(item) == ExtractField(item, <<"i", "d">>).v

\* items with equal keys are in the order they had in the input
TiesKeepInputOrder ==
    \A p, q \in 1..Len(list) :
        (p < q /\ KeyEq(SortKeyOf(list[p]), SortKeyOf(list[q])))
            => InputPosition(list[p]) < InputPosition(list[q])

Sorted == spc = "returned" /\ Len(input) >= 2

\* C2: for every list of 2 or more items whose sort keys are all of one
\* supported kind, listSort returns nil and leaves the list a permutation of
\* its input with its keys non-decreasing (ASC or empty Order) or
\* non-increasing (DESC).
C2_SortsEveryUniformList ==
    (Sorted /\ OneSupportedKind)
        => (sortErr = "nil" /\ IsPermutation(list, input) /\ InOrder)

\* C3: ascending sort is stable: after listSort with Order "ASC" or empty,
\* two items with equal sort keys are in the order they had in the input.
C3_AscendingIsStable ==
    (Sorted /\ sortErr = "nil" /\ OfTestItems /\ params.order # descending)
        => TiesKeepInputOrder

\* C3 witness: an ascending sort that moved an item and left a tie in place
C3_Witness ==
    /\ Sorted /\ sortErr = "nil" /\ OfTestItems /\ params.order # descending
    /\ list # input
    /\ \E p, q \in 1..Len(list) :
          p < q /\ KeyEq(SortKeyOf(list[p]), SortKeyOf(list[q]))

\* C4: descending sort preserves tie order: after listSort with Order "DESC",
\* two items with equal sort keys are in the order they had in the input.
C4_DescendingKeepsTies ==
    (Sorted /\ sortErr = "nil" /\ OfTestItems /\ params.order = descending)
        => TiesKeepInputOrder

\* the first sort key cannot be extracted, is nil or is of no supported kind
FirstKeyUnusable == SortKeyOf(input[1]).kind \notin SupportedKinds

\* a later key has another dynamic type than the (usable) first key
LaterKeyOfOtherType ==
    /\ ~FirstKeyUnusable
    /\ \E i \in 2..Len(input) : SortKeyOf(input[i]).kind # SortKeyOf(input[1]).kind

\* C5: for a list of 2 or more items, listSort returns a non-nil error and no
\* panic escapes the worker when the first key is unusable or a later key is
\* of another type than the first; an unusable first key is reported before
\* any comparison is made.
C5_BadKeysAreErrors ==
    (Len(input) >= 2 /\ (FirstKeyUnusable \/ LaterKeyOfOtherType))
        => /\ wpc # "crashed"
           /\ wpc = "sending" => errChan \notin {"nil", "none"}
           /\ spc = "returned" => sortErr \notin {"nil", "none"}
           /\ FirstKeyUnusable => ncmp = 0

\* C5 witness: listSort returned the error of a recovered panic raised by a
\* key of another type, after at least one comparison
C5_Witness ==
    /\ Sorted /\ LaterKeyOfOtherType
    /\ sortErr = "failed to sort"
    /\ ncmp > 1

-----------------------------------------------------------------------------
(* Properties of limitLength.Match, checked under SpecLimit.               *)

Min(a, b) == IF a < b THEN a ELSE b
Max(a, b) == IF a > b THEN a ELSE b

\* the calls of Match that returned true
Matched == {i \in 1..Len(returns) : returns[i].value}

\* C6: the i-th call of Match on a LIMIT comparator constructed with Value n
\* returns true if and only if i <= n; with n <= 0 no call matches, and of k
\* calls exactly the first min(k, n) match.
C6_MatchesWhileAtOrBelowLimit ==
    /\ \A i \in 1..Len(returns) : returns[i].value <=> (i <= limiter.limit)
    /\ limiter.limit <= 0 => Matched = {}
    /\ limiter.limit > 0 => Matched = 1..Min(Len(returns), limiter.limit)

\* C6 witness: one caller made three calls in a row on a limit of 2, and the
\* third was the first not to match
C6_Witness ==
    /\ limiter.limit = 2
    /\ Len(returns) = 3
    /\ \A i \in 1..3 : returns[i].caller = 1
    /\ Matched = {1, 2}

\* no call of Match is under way
Quiescent == \A c \in Callers : mpc[c] = "idle"

\* the callers past c.mtx.Lock() and not yet past c.mtx.Unlock()
InMatch == {c \in Callers : mpc[c] \in {"load", "store", "return"}}

\* C7: with several concurrent callers of Match on one LIMIT comparator the
\* counter update is mutually exclusive, no increment is lost, the counter
\* ends at the number k of calls, and exactly min(k, max(n, 0)) calls return
\* true.
C7_ConcurrentMatchCountsEveryCall ==
    /\ Cardinality(InMatch) <= 1
    /\ limiter.count = Len(returns) + Cardinality({c \in Callers : mpc[c] = "return"})
    /\ Quiescent =>
          /\ limiter.count = Len(returns)
          /\ Cardinality(Matched) = Min(Len(returns), Max(limiter.limit, 0))

\* C7 witness: two callers made three calls between them on a limit of 1;
\* all returned, the counter is 3 and one call matched
C7_Witness ==
    /\ Quiescent
    /\ limiter.limit = 1
    /\ limiter.count = 3
    /\ {returns[i].caller : i \in 1..Len(returns)} = {1, 2}
    /\ Cardinality(Matched) = 1

-----------------------------------------------------------------------------
(* Properties of the list field resolver, checked under Spec.              *)

\* the resolver returned a list and no error
ReturnedList == rpc = "done" /\ retErr = "nil" /\ retVal.kind = "slice"

\* the first n items of l
FirstItems(l, n) == SubSeq(l, 1, Min(Max(n, 0), Len(l)))

\* C1: given a sort argument and a LIMIT filter with Value n, the resolver
\* sorts the whole list first and filters afterwards: its result is the first
\* min(n, length) items of the sorted list, in sorted order.
C1_SortsBeforeLimit ==
    (ReturnedList /\ sortErr = "nil" /\ filter.op.type = "limitLength")
        => /\ IsPermutation(list, input)
           /\ InOrder
           /\ retVal = SliceV(FirstItems(list, filter.op.limit))

\* C1 witness: a list of two items that the sort swapped, cut to one item:
\* the item that was second in the input
C1_Witness ==
    /\ ReturnedList /\ sortErr = "nil" /\ filter.op.type = "limitLength"
    /\ filter.op.limit = 1
    /\ Len(input) = 2
    /\ list = <<input[2], input[1]>>
    /\ retVal = SliceV(<<input[2]>>)

\* what the filter's comparator is matched against for an item
Operand(item) ==
    IF filter.fieldName = <<>> THEN Nil
    ELSE deepExtractFieldWithError(item, filter.fieldName).val

\* the comparator matches item i of the list: a LIMIT comparator matches the
\* first items up to its limit, any other comparator matches on the operand
Matches(i) ==
    IF filter.op.type = "limitLength" THEN i <= filter.op.limit
    ELSE Match(filter.op, Operand(list[i]))

\* the items among the first n of the list that the comparator matches
RECURSIVE MatchingItems(_)
MatchingItems(n) ==
    IF n = 0 THEN <<>>
    ELSE IF Matches(n) THEN Append(MatchingItems(n - 1), list[n])
    ELSE MatchingItems(n - 1)

\* C8: given a filter and no error, the result of the resolver is exactly
\* the items the comparator matches (on the value deep-extracted at Field, on
\* nil when Field is empty), each once and in the order of the list after
\* sorting.
C8_ResultIsTheMatchingItems ==
    (ReturnedList /\ FilterGiven(filter))
        => retVal = SliceV(MatchingItems(Len(list)))

\* C8 witness: of two items that the sort swapped, a comparator on a field
\* kept the one that matches and dropped the other
C8_Witness ==
    /\ ReturnedList /\ FilterGiven(filter)
    /\ filter.op.type # "limitLength" /\ filter.fieldName # <<>>
    /\ sortErr = "nil"
    /\ Len(input) = 2
    /\ list = <<input[2], input[1]>>
    /\ retVal \in {SliceV(<<list[1]>>), SliceV(<<list[2]>>)}

\* ExtractField finds nothing for the first segment of the filter's Field
FirstSegmentNotFound(item) ==
    ExtractField(item, Head(Split(filter.fieldName, FieldPathSeparator))) = Nil

\* the resolver returned after it ran the filter loop over the list
FilterEvaluated ==
    /\ rpc = "done"
    /\ FilterGiven(filter)
    /\ sortErr \in {"none", "nil"}

\* C9: if the first segment of the filter's Field is not found for some item
\* of the list, the evaluation of the filter aborts: the resolver returns the
\* wrapped error and no list, whatever the items before it matched.
C9_FieldNotFoundAborts ==
    (/\ FilterEvaluated
     /\ filter.fieldName # <<>>
     /\ \E i \in 1..Len(list) : FirstSegmentNotFound(list[i]))
        => /\ retErr = "filtering and sorting is not available on hydrated items"
           /\ retVal = Nil

\* C9 witness: the first item matched, the second has no field of the name:
\* the resolver returned the error and no list
C9_Witness ==
    /\ FilterEvaluated
    /\ filter.fieldName # <<>>
    /\ Len(list) = 2
    /\ ~FirstSegmentNotFound(list[1])
    /\ list[2] = idItem(2)
    /\ matchLog = <<TRUE>>
    /\ retErr = "filtering and sorting is not available on hydrated items"
    /\ retVal = Nil

\* the nodes of the filter object named name
Named(name) ==
    {filterArg.fields[i].value : i \in {j \in 1..Len(filterArg.fields) :
                                           filterArg.fields[j].name = name}}

\* the fields of the Argument object of the filter, none without an Argument
ArgumentFields ==
    UNION {{node.fields[i] : i \in 1..Len(node.fields)} :
              node \in {n \in Named("Argument") : n.kind = "ObjectValue"}}

\* the values given for a key of the Argument
ArgumentNamed(name) == {f.value : f \in {g \in ArgumentFields : g.name = name}}

IsListOfStrings(node) ==
    /\ node.kind = "ListValue"
    /\ \A i \in 1..Len(node.values) : node.values[i].kind = "StringValue"

\* the Argument is not what the constructor of the operation asks for:
\* Values, a list of strings, for IN and NOT IN; Value, an int or a string,
\* for == and !=; Value, an int, for the others
ConstructorRejects(operation) ==
    IF operation \in {opIN, opNOTIN}
    THEN \A node \in ArgumentNamed("Values") : ~IsListOfStrings(node)
    ELSE IF operation \in {opEQ, opNE}
    THEN \A node \in ArgumentNamed("Value") : node.kind \notin {"IntValue", "StringValue"}
    ELSE \A node \in ArgumentNamed("Value") : node.kind # "IntValue"

\* the filter argument is one that newListFilter does not accept
FilterUnacceptable ==
    /\ filterArg # Nil
    /\ \/ filterArg.kind # "fields"
       \/ \E node \in Named("Field") : node.kind # "StringValue"
       \/ \E node \in Named("Operation") : node.kind # "StringValue"
       \/ \E node \in Named("Argument") : node.kind # "ObjectValue"
       \/ Named("Operation") = {}
       \/ \E node \in Named("Operation") : node = StringValue(<<>>)
       \/ \E node \in Named("Operation") :
             node.kind = "StringValue" /\ node.value \notin RegisteredOperations
       \/ \E node \in Named("Operation") :
             /\ node.kind = "StringValue"
             /\ node.value \in RegisteredOperations
             /\ ConstructorRejects(node.value)
       \/ \E f \in ArgumentFields : f.value.kind = "ObjectValue"

\* C10: newListFilter returns (nil, nil) for a nil argument; it returns an
\* error and no filter for an argument that is no object, whose Field or
\* Operation is no string, whose Argument is no object or holds an object,
\* whose Operation is missing, empty or not registered, or whose Argument the
\* constructor rejects; the resolver then returns that error and resolves no
\* value for the field.
C10_BadFiltersAreErrors ==
    /\ filterArg = Nil => newListFilter(filterArg) = [filter |-> NoFilter, err |-> "nil"]
    /\ FilterUnacceptable =>
          /\ newListFilter(filterArg).err # "nil"
          /\ newListFilter(filterArg).filter = NoFilter
          /\ rpc # "start" =>
                /\ rpc = "done"
                /\ retErr = newListFilter(filterArg).err
                /\ retVal = Nil
                /\ ~resolved
                /\ reported = <<>>

\* C10 witness: the resolver returned the error of the constructor of LIMIT,
\* with a reporter at hand that was told of no field
C10_Witness ==
    /\ rpc = "done"
    /\ FilterUnacceptable
    /\ filterArg.kind = "fields"
    /\ Named("Operation") = {StringValue(opLIMIT)}
    /\ reporter = "ok"
    /\ retErr = "filter argument 'Value' must be an integer"
    /\ retVal = Nil /\ ~resolved /\ reported = <<>>

-----------------------------------------------------------------------------
(* Properties of the extraction of fields.                                 *)

\* ExtractField applied with the first n segments of a path, one after the
\* other, each to what the one before returned
RECURSIVE Chain(_, _, _)
Chain(s, segs, n) ==
    IF n = 0 THEN s ELSE ExtractField(Chain(s, segs, n - 1), segs[n])

\* each of the first n segments is found: ExtractField returns a value
AllFound(s, segs, n) ==
    \A k \in 1..n : Chain(s, segs, k) \notin {Nil, Panic}

DeepExtracted == call.fn = "deepExtractFieldWithError" /\ answer.done

ExportedPart(s) == StructV(SelectSeq(s.fields, LAMBDA f : f.exported))

Extracted == call.fn = "ExtractField" /\ answer.done

\* C12: ExtractField never returns the value of an unexported field and
\* never fails over one: a key that is the derived name of an unexported
\* field is not found, an unexported embedded struct is skipped, so the
\* result is the one of the lookup in the exported part of the struct.
C12_UnexportedIsSkipped ==
    Extracted /\ call.s.kind = "struct"
        => answer.val = ExtractField(ExportedPart(call.s), call.key)

\* C13: for an input that is no struct (a scalar, a slice, a pointer, the nil
\* interface value) ExtractField returns nil for every key and does not fail.
C13_NonStructIsNotFound ==
    Extracted /\ call.s.kind # "struct" => answer.val = Nil

-----------------------------------------------------------------------------
(* Properties of fieldName.                                                *)

\* the name segment of a json tag: what stands before its first comma
NameSegment(tag) ==
    IF \E i \in 1..Len(tag) : tag[i] = ","
    THEN SubSeq(tag, 1, (CHOOSE i \in 1..Len(tag) :
                            /\ tag[i] = ","
                            /\ \A j \in 1..(i - 1) : tag[j] # ",") - 1)
    ELSE tag

\* str with every "_" left out, the other characters in their order
RECURSIVE Without_(_)
Without_(str) ==
    IF str = <<>> THEN <<>>
    ELSE (IF Head(str) = "_" THEN <<>> ELSE <<Head(str)>>) \o Without_(Tail(str))

FieldNamed == call.fn = "fieldName" /\ answer.done

-----------------------------------------------------------------------------
(* Properties of the ObjectBuilder.                                        *)

\* the objects within a type: the type itself, the objects of its fields
RECURSIVE ObjectsIn(_)
ObjectsIn(gtype) ==
    IF gtype.kind = "object"
    THEN {gtype} \cup UNION {ObjectsIn(gtype.fields[k].Type) : k \in DOMAIN gtype.fields}
    ELSE IF gtype.kind \in {"nonnull", "list"} THEN ObjectsIn(gtype.OfType)
    ELSE {}

\* the field sets of all that is built: of the interfaces, of the objects
\* BuildTypes returned, and of the objects nested in either
BuiltFieldSets ==
    {ob.interfaceFields[n] : n \in DOMAIN ob.interfaceFields}
    \cup {o.fields : o \in UNION {ObjectsIn(gTypes[i]) : i \in 1..Len(gTypes)}}
    \cup {o.fields : o \in UNION {UNION {ObjectsIn(ob.interfaceFields[n][k].Type) :
                                            k \in DOMAIN ob.interfaceFields[n]} :
                                     n \in DOMAIN ob.interfaceFields}}

\* the fields a struct declares itself, the embedded ones left out
Declared(sType) == {sType.fields[j] : j \in {i \in 1..Len(sType.fields) : ~sType.fields[i].Anonymous}}

\* BuildTypes returned the objects of the structs
TypesBuilt == ob.state = "made" /\ Len(gTypes) = Len(ob.structs)

\* C15: a struct field whose json tag is exactly "-" is left out of the
\* schema: nothing that is built has a field generated from it, so nothing
\* has a field with the empty name.
C15_SkippedFieldIsLeftOut ==
    ob.state = "made" => \A fields \in BuiltFieldSets : <<>> \notin DOMAIN fields

\* the field of that name in the object is one buildFields generated
Generated(object, name) ==
    /\ name \in DOMAIN object.fields
    /\ object.fields[name].Resolve \in {"ResolveByField", "ResolveListField"}

\* C16: only the exported fields of a struct are set up as GraphQL fields:
\* no unexported field of a registered struct, or of a struct nested in it,
\* has a generated field in the object built from the struct.
C16_OnlyExportedFields ==
    TypesBuilt =>
        \A i \in 1..Len(gTypes) :
            \A f \in Declared(ob.structs[i]) :
                /\ ~IsExported(f) => ~Generated(gTypes[i], fieldName(f))
                /\ f.Type.kind = "struct" /\ Generated(gTypes[i], fieldName(f))
                   /\ resolveGraphQLObject(gTypes[i].fields[fieldName(f)].Type) # Nil
                   => \A g \in Declared(f.Type) :
                         ~IsExported(g)
                         => ~Generated(resolveGraphQLObject(gTypes[i].fields[fieldName(f)].Type),
                                       fieldName(g))

\* one of the options of the json tag, which follow its name, is omitempty
HasOmitEmptyOption(field) ==
    \E i \in 2..Len(Split(field.json, ",")) :
        Split(field.json, ",")[i] = <<"o", "m", "i", "t", "e", "m", "p", "t", "y">>

\* C17: the type of a generated field is wrapped NonNull unless one of the
\* options of its json tag is exactly omitempty (a nil type has no field);
\* the name segment of the tag has no influence.
C17_NonNullUnlessOmitEmpty ==
    TypesBuilt =>
        \A i \in 1..Len(gTypes) :
            \A f \in Declared(ob.structs[i]) :
                Generated(gTypes[i], fieldName(f))
                => (gTypes[i].fields[fieldName(f)].Type.kind = "nonnull"
                    <=> ~HasOmitEmptyOption(f))

\* C18: NewObjectBuilder returns an error and no builder exactly when the
\* name prefix contains "_"; for every other prefix it returns a builder.
C18_PrefixWithSeparatorIsRefused ==
    ob.state # "none" =>
        /\ ob.state = "error" <=> \E i \in 1..Len(bargs.namePrefix) : bargs.namePrefix[i] = "_"
        /\ ob.state \in {"error", "made"}
        /\ ob.state = "made" => ob.prefix = bargs.namePrefix /\ ob.structs = bargs.structs

\* the prefix p_ is refused
C18_Witness ==
    /\ bargs.fn = "NewObjectBuilder"
    /\ bargs.namePrefix = <<"p", "_">>
    /\ ob.state = "error"

\* the type names of the exported structs embedded at the root of a struct
EmbeddedIn(sType) ==
    {sType.fields[j].Type.name :
        j \in {i \in 1..Len(sType.fields) :
                 sType.fields[i].Anonymous /\ IsExported(sType.fields[i])}}

\* C19: after BuildInterfaces, calls of AddCustomFields and BuildTypes there
\* is one interface for every exported struct embedded at the root of a
\* registered struct, under the type name of the struct, and the object of
\* every struct that embeds it has a field for every field of the interface,
\* those that AddCustomFields added to the interface included.
C19_ObjectsHaveTheInterfaceFields ==
    ob.state = "made" /\ ob.last = "BuildTypes" =>
        /\ DOMAIN ob.interfaces = UNION {EmbeddedIn(ob.structs[i]) : i \in 1..Len(ob.structs)}
        /\ DOMAIN ob.interfaceFields = DOMAIN ob.interfaces
        /\ \A i \in 1..Len(ob.structs) :
               \A n \in EmbeddedIn(ob.structs[i]) :
                   /\ ob.interfaces[n].name = ob.prefix \o n
                   /\ ob.interfaces[n] \in gTypes[i].interfaces
                   /\ DOMAIN ob.interfaceFields[n] \subseteq DOMAIN gTypes[i].fields

\* under the prefix P only AddCustomFields gives the interface of TB the
\* field z, and the object of S, built after it, has the field
C19_Witness ==
    /\ ob.state = "made" /\ ob.last = "BuildTypes"
    /\ ob.prefix = <<"P">>
    /\ nTB \in EmbeddedIn(ob.structs[1])
    /\ <<"z">> \in DOMAIN ob.interfaceFields[nTB]
    /\ <<"z">> \in DOMAIN gTypes[1].fields

\* the overlay registered for the path of an object
OverlayOf(object) ==
    IF object.name \in DOMAIN ob.fieldAdditions THEN ob.fieldAdditions[object.name] ELSE <<>>

\* the last element of seq that satisfies Test
LastThat(seq, Test(_)) ==
    seq[CHOOSE i \in 1..Len(seq) : Test(seq[i]) /\ \A j \in (i + 1)..Len(seq) : ~Test(seq[j])]

\* the fields of a struct that give its object a field, in their order
Mapped(sType, object) ==
    SelectSeq(sType.fields,
              LAMBDA f : ~f.Anonymous
                         /\ fieldGraphQLType(ob.fieldAdditions, object.round, f, object.name) # Nil)

\* the field the struct's own field f gives the object
OwnField(f, object) ==
    GeneratedField(fieldName(f),
                   fieldGraphQLType(ob.fieldAdditions, object.round, f, object.name),
                   f.description,
                   IF f.Type.kind = "slice" THEN "ResolveListField" ELSE "ResolveByField")

\* the field of that name is the one of its source of highest precedence:
\* the overlay of the object, then the struct, then the interfaces
DefinedByPrecedence(object, sType, k) ==
    IF \E j \in 1..Len(OverlayOf(object)) : OverlayOf(object)[j].Name = k
    THEN object.fields[k] = LastThat(OverlayOf(object), LAMBDA c : c.Name = k)
    ELSE IF \E j \in 1..Len(Mapped(sType, object)) : fieldName(Mapped(sType, object)[j]) = k
    THEN object.fields[k]
         = OwnField(LastThat(Mapped(sType, object), LAMBDA f : fieldName(f) = k), object)
    ELSE IF \E j \in 1..Len(Mapped(sType, object)) :
               /\ Mapped(sType, object)[j].Type.kind = "slice"
               /\ totalName(fieldName(Mapped(sType, object)[j])) = k
    THEN object.fields[k] = TotalField(k)
    ELSE \E n \in EmbeddedIn(sType) :
            /\ k \in DOMAIN ob.interfaceFields[n]
            /\ object.fields[k] = ob.interfaceFields[n][k]

\* C20: in every object BuildTypes returns each field is the one of the
\* source of highest precedence that defines its name: the custom fields
\* registered for the path of the object, before the field generated from
\* the struct, before the fields inherited from the interfaces (with the
\* custom fields of the interfaces); the whole definition (type,
\* description, deprecation reason) is the one of that source.
C20_FieldsFollowPrecedence ==
    ob.state = "made" /\ ob.last = "BuildTypes" =>
        \A i \in 1..Len(gTypes) :
            \A k \in DOMAIN gTypes[i].fields :
                DefinedByPrecedence(gTypes[i], ob.structs[i], k)

\* the field id of the object of S has all three sources: TB, the field Id
\* of S and the overlay of the object, and a field a only the overlay
C20_Witness ==
    /\ ob.state = "made" /\ ob.last = "BuildTypes"
    /\ nTB \in EmbeddedIn(ob.structs[1])
    /\ \E f \in Declared(ob.structs[1]) : fieldName(f) = nId
    /\ gTypes[1].name \in DOMAIN ob.fieldAdditions
    /\ gTypes[1].fields[nId].Resolve = "custom"
    /\ gTypes[1].fields[sA].Resolve = "custom"

-----------------------------------------------------------------------------
(* The total count next to a list field (builder.go).                      *)

\* a Go array value
ArrayV(elems) == [kind |-> "array", elems |-> elems]

\* ResolveTotalCount once the reporter was told of the field:
\* reflect.ValueOf(field), IsValid, Kind, Len
CountedValue(field, told) ==
    IF field = Panic
    THEN [val |-> Nil, err |-> "nil", reported |-> told, panicked |-> TRUE]
    ELSE IF field = Nil
    THEN [val |-> IntV(0), err |-> "nil", reported |-> told, panicked |-> FALSE]
    ELSE IF field.kind \notin {"slice", "array"}
    THEN [val |-> Nil, err |-> "field value is not a valid list in the data",
          reported |-> told, panicked |-> FALSE]
    ELSE [val |-> IntV(Len(field.elems)), err |-> "nil", reported |-> told, panicked |-> FALSE]

\* the resolver made by ResolveTotalCount(totalFieldName, listFieldName,
\* parent), run on a source with a reporter: [val, err, reported, panicked]
ResolveTotalCount(totalFieldName, listFieldName, parent, src, rep) ==
    IF rep = "failing"
    THEN [val |-> Nil, err |-> "reporter error",
          reported |-> <<fullFieldName(totalFieldName, parent)>>, panicked |-> FALSE]
    ELSE CountedValue(ExtractField(src, listFieldName),
                      IF rep = "ok" THEN <<fullFieldName(totalFieldName, parent)>> ELSE <<>>)

\* the total field returned t
TotalReturned(t) ==
    /\ call' = [fn |-> "ResolveTotalCount"]
    /\ answer' = [done |-> TRUE, val |-> t]
    /\ reported' = reported \o t.reported

\* the resolver of the field totalItems of the query, before, while or after
\* the resolver of the list field items runs on the same source
TotalCount ==
    /\ rpc # "none"
    /\ call.fn = "none"
    /\ TotalReturned(ResolveTotalCount(totalName(listName), listName, parentName,
                                       source, reporter))
    /\ UNCHANGED <<rpc, filterArg, sortArg, source, reporter, filter, resolved,
                   matchLog, retVal, retErr>>
    /\ UNCHANGED <<sortVars, limVars, builderVars>>

\* p.Source of the query: the sources of the list resolver, a struct that
\* holds the list in an array, a struct that holds it in an unexported field
TotalSources ==
    Sources
    \cup {StructV(<<Fld(listName, ArrayV(<<IntV(1), IntV(2)>>))>>),
          StructV(<<UFld(listName, SliceV(<<IntV(1), IntV(2)>>))>>)}

InitTotal ==
    /\ rpc = "start"
    /\ filterArg \in FilterArgs
    /\ sortArg \in SortArgs
    /\ source \in TotalSources
    /\ reporter \in Reporters
    /\ filter = NoFilter
    /\ resolved = FALSE
    /\ reported = <<>>
    /\ matchLog = <<>>
    /\ retVal = Nil
    /\ retErr = "none"
    /\ NoSort
    /\ NoLimiter
    /\ NoCall
    /\ NoBuilder

NextTotal == RLFStart \/ WorkerRun \/ RLFResume \/ TotalCount

SpecTotal == InitTotal /\ [][NextTotal]_vars

-----------------------------------------------------------------------------
(* Properties of the overlays and of the phases of building.               *)

\* the step is a call of AddCustomFields on the builder
AddsCustomFields ==
    /\ ob.state = "made"
    /\ ob'.calls = ob.calls + 1
    /\ ob'.last = "AddCustomFields"

\* the table of the call of AddCustomFields made last
LastTable(b) == b.trace[Len(b.trace)].table

\* the first segment of the key names a built interface, and the segments
\* after it, of which there is one at least, lead to no nested object
Unresolved(b, key) ==
    /\ b.built
    /\ Head(Split(key, FieldPathSeparator)) \in DOMAIN b.interfaces
    /\ Len(Split(key, FieldPathSeparator)) > 1
    /\ ~FindsObject(b.interfaceFields[Head(Split(key, FieldPathSeparator))],
                    Tail(Split(key, FieldPathSeparator)))

\* C21: a call of AddCustomFields after BuildInterfaces whose keys name a
\* built interface and then a path that resolves to no nested object changes
\* nothing that is built: the fields of the interfaces and of the objects
\* nested in them stay as they are.
C21_UnresolvedPathIsNoOp ==
    [][AddsCustomFields /\ (\A key \in DOMAIN LastTable(ob') : Unresolved(ob, key))
       => ob'.interfaceFields = ob.interfaceFields /\ gTypes' = gTypes]_vars

\* C22: AddCustomFields is idempotent: a second call in a row with the same
\* table leaves the table of additions, the fields of every interface and of
\* every nested object, and the objects built before as the first call left
\* them, in every phase of building.
C22_AddCustomFieldsIsIdempotent ==
    [][AddsCustomFields /\ ob.last = "AddCustomFields" /\ LastTable(ob') = LastTable(ob)
       => /\ ob'.fieldAdditions = ob.fieldAdditions
          /\ ob'.interfaceFields = ob.interfaceFields
          /\ ob'.objects = ob.objects
          /\ gTypes' = gTypes]_vars

\* the step is a call of BuildTypes on the builder
BuildsTypes ==
    /\ ob.state = "made"
    /\ ob'.calls = ob.calls + 1
    /\ ob'.last = "BuildTypes"

\* BuildInterfaces ran on the builder, called by the program or by BuildTypes
RanBuildInterfaces(b) ==
    \E i \in 1..Len(b.trace) : b.trace[i].method \in {"BuildInterfaces", "BuildTypes"}

\* C23: BuildTypes runs BuildInterfaces itself exactly when BuildInterfaces
\* did not run on the builder before. When it did, BuildTypes keeps the
\* interfaces built then, with the fields AddCustomFields merged into them
\* since, and in both cases it attaches the interfaces of the builder to the
\* objects of the structs that embed them.
C23_BuildTypesReusesInterfaces ==
    [][BuildsTypes
       => /\ IF RanBuildInterfaces(ob)
             THEN /\ ob'.interfaces = ob.interfaces
                  /\ ob'.interfaceFields = ob.interfaceFields
                  /\ ob'.round = ob.round + 1
             ELSE /\ ob'.round = ob.round + 2
                  /\ \A n \in DOMAIN ob'.interfaces : ob'.interfaces[n].round = ob.round + 1
          /\ ob'.built
          /\ \A i \in 1..Len(ob'.structs) :
                gTypes'[i].interfaces = {ob'.interfaces[n] : n \in EmbeddedIn(ob'.structs[i])}]_vars

\* BuildInterfaces, then AddCustomFields gives the interface of TB the field
\* z, then BuildTypes attaches that interface, of the first round, to S
C23_Witness ==
    /\ ob.state = "made"
    /\ Len(ob.trace) = 3
    /\ ob.trace[1].method = "BuildInterfaces"
    /\ ob.trace[2] = [method |-> "AddCustomFields", table |-> InterfaceOverlay]
    /\ ob.trace[3].method = "BuildTypes"
    /\ ob.interfaces[nTB].round = 1
    /\ <<"z">> \in DOMAIN ob.interfaceFields[nTB]
    /\ ob.interfaces[nTB] \in gTypes[1].interfaces
    /\ gTypes[1].round = 2

\* what a schema shows of a type: its name, the names and types of its
\* fields, nullability, and the names of the interfaces it implements
RECURSIVE TypeShape(_)
TypeShape(gtype) ==
    IF gtype.kind = "object"
    THEN [kind |-> "object", name |-> gtype.name,
          fields |-> [k \in DOMAIN gtype.fields |-> TypeShape(gtype.fields[k].Type)],
          interfaces |-> {i.name : i \in gtype.interfaces}]
    ELSE IF gtype.kind \in {"nonnull", "list"}
    THEN [kind |-> gtype.kind, OfType |-> TypeShape(gtype.OfType)]
    ELSE IF gtype.kind = "interface" THEN [kind |-> "interface", name |-> gtype.name]
    ELSE gtype

\* the orders the ranges of buildType over the embedded structs may take,
\* one for every registered struct
EmbedOrders(structs) ==
    {orders \in [1..Len(structs) -> UNION {Orders({e.name : e \in extractEmbeds(structs[i])}) :
                                             i \in 1..Len(structs)}] :
        \A i \in 1..Len(structs) :
            orders[i] \in Orders({e.name : e \in extractEmbeds(structs[i])})}

\* C24: building is deterministic: the objects BuildTypes returned are, in
\* names, field names, field types, nullability and interfaces, the ones
\* any other run of BuildTypes on the same builder returns, whatever order
\* the ranges over the embedded structs take, also when two structs
\* embedded in one struct both define a field of the same name.
C24_BuildIsDeterministic ==
    ob.state = "made" /\ ob.last = "BuildTypes"
    => \A orders \in EmbedOrders(ob.structs) :
          \A i \in 1..Len(gTypes) :
              TypeShape(typesOf(ob, orders)[i]) = TypeShape(gTypes[i])

\* the shapes the session generated under a name: the objects BuildTypes
\* returned, the objects nested in them and in the interfaces, and the
\* interfaces
NamedShapes ==
    {TypeShape(o) : o \in UNION {ObjectsIn(gTypes[i]) : i \in 1..Len(gTypes)}}
    \cup {TypeShape(o) : o \in UNION {UNION {ObjectsIn(ob.interfaceFields[n][k].Type) :
                                                k \in DOMAIN ob.interfaceFields[n]} :
                                         n \in DOMAIN ob.interfaceFields}}
    \cup {[kind |-> "interface", name |-> ob.interfaces[n].name,
           fields |-> [k \in DOMAIN ob.interfaceFields[n] |->
                          TypeShape(ob.interfaceFields[n][k].Type)]] :
             n \in DOMAIN ob.interfaces}

\* C25: every generated type name is unique within a session: once
\* BuildTypes ran on a new builder, no two distinct shapes among the root
\* objects, the nested objects and the interfaces have the same name.
C25_TypeNamesAreUnique ==
    ob.state = "made" /\ ob.last = "BuildTypes" /\ ob.calls = 1
    => \A a, b \in NamedShapes : a.name = b.name => a = b

\* C29: after BuildTypes, for every registered struct that embeds an
\* exported struct and for every accepted prefix, upper-case ones included,
\* resolveObjectByName of a value of the struct is the object BuildTypes
\* generated for the struct, never nil.
C29_ResolvesTheGeneratedObject ==
    ob.state = "made" /\ ob.last = "BuildTypes"
    => \A i \in 1..Len(ob.structs) :
          EmbeddedIn(ob.structs[i]) # {}
          => resolveObjectByName(ob, ob.structs[i]) = gTypes[i]

\* the interfaces and the objects of the session have the fields of the
\* interfaces of the builder b and of the objects BuildTypes returns on b
SameFieldSets(b) ==
    /\ DOMAIN ob.interfaceFields = DOMAIN b.interfaceFields
    /\ \A n \in DOMAIN b.interfaceFields :
          DOMAIN ob.interfaceFields[n] = DOMAIN b.interfaceFields[n]
    /\ \A orders \in EmbedOrders(b.structs) :
          \A i \in 1..Len(b.structs) :
              DOMAIN gTypes[i].fields = DOMAIN typesOf(b, orders)[i].fields

\* the builder of the other route, before its BuildTypes: the table is
\* given to NewObjectBuilder and BuildInterfaces ran
GivenAtConstruction(table) ==
    [AfterBuildInterfaces(MadeBuilder(bargs.structs, bargs.namePrefix, table),
                          allEmbeds(bargs.structs)) EXCEPT !.round = @ + 1]

\* C30: custom fields under the type name of an embedded struct give the
\* same schema by both routes: a session that hands the table to
\* AddCustomFields between BuildInterfaces and BuildTypes ends with the field
\* sets, of the interface and of every object that implements it, of the
\* session that hands the table to NewObjectBuilder, for the empty and for
\* every other prefix.
C30_BothRoutesGiveTheSameFields ==
    /\ ob.state = "made"
    /\ bargs.fieldAdditions = EmptyMap
    /\ Len(ob.trace) = 3
    /\ ob.trace[1].method = "BuildInterfaces"
    /\ ob.trace[2] = [method |-> "AddCustomFields", table |-> InterfaceOverlay]
    /\ ob.trace[3].method = "BuildTypes"
    => SameFieldSets(GivenAtConstruction(InterfaceOverlay))

\* the field of the source that holds the list, 0 when there is none
ListFieldOf(src) == FirstNamed(src, listName)

\* C26: the total field of a list field returns the length of the raw
\* collection, whatever filter and sort arguments the list field of the same
\* query has and wherever its resolver stands; it returns 0 when the list
\* field cannot be extracted from the source; it returns an error when the
\* value extracted is there but is neither a slice nor an array.
C26_TotalIsTheRawLength ==
    answer.done /\ call.fn = "ResolveTotalCount" /\ reporter # "failing"
    => /\ ~answer.val.panicked
       /\ IF ListFieldOf(source) = 0 \/ ~source.fields[ListFieldOf(source)].exported
          THEN answer.val.val = IntV(0) /\ answer.val.err = "nil"
          ELSE IF source.fields[ListFieldOf(source)].val.kind \in {"slice", "array"}
          THEN /\ answer.val.val = IntV(Len(source.fields[ListFieldOf(source)].val.elems))
               /\ answer.val.err = "nil"
          ELSE answer.val.val = Nil /\ answer.val.err # "nil"

\* C27: with a QueryReporter in the context, a call of the resolver made by
\* ResolveByField(name, parent) calls QueriedField exactly once, with parent,
\* the separator and name, before the field is extracted and also when the
\* extraction fails; when QueriedField returns an error the resolver returns
\* that error and no value.
C27_ReportsOnceBeforeExtracting ==
    reporter # "none" /\ resolved
    => /\ reported = <<parentName \o <<"_">> \o listName>>
       /\ reporter = "failing"
          => rpc = "done" /\ retVal = Nil /\ retErr = "reporter error"

\* the reporter was told of a field that the source does not have
C27_Witness ==
    /\ reporter = "ok"
    /\ resolved
    /\ ListFieldOf(source) = 0
    /\ retErr = "failed to extract field value from data"
    /\ reported = <<parentName \o <<"_">> \o listName>>

-----------------------------------------------------------------------------
(* Properties of the worker goroutine of listSort.                         *)

\* C28: in every call of listSort on 2 or more items the worker goroutine
\* sends exactly one value on the channel, on every path (the sort done, a
\* first key that is nil or of an unsupported kind, a recovered panic): while
\* listSort waits the worker is on its way to the send, and once listSort
\* returned the worker has ended, not blocked on a second send, and the list
\* is as the worker left it before the send.
C28_WorkerSendsExactlyOnce ==
    Len(input) >= 2 /\ spc # "call"
    => /\ Len(WorkerSends(params, input)) = 1
       /\ spc = "waiting" => wpc \in {"spawned", "sending"}
       /\ spc = "returned"
          => /\ wpc = "exited"
             /\ errChan = "none"
             /\ sortErr = WorkerSends(params, input)[1]
             /\ list = unprotectedListSort(params, input).list

\* listSort returned the error of a panic that the worker recovered and
\* sent, and the worker has ended
C28_Witness ==
    /\ Len(input) >= 2
    /\ spc = "returned"
    /\ SortBody(params, input).panicked
    /\ sortErr = "failed to sort"
    /\ wpc = "exited"

====
